---------------------------- MODULE Spec2Model ----------------------------
(***************************************************************************)
(* A model of ad-index: the sqlite-backed Store (src/ad_index/db.py), the  *)
(* push-queue dispatcher and the crawl worker (src/ad_index/server.py).    *)
(*                                                                         *)
(* Every Store method is one transaction under DB._lock, so each is one    *)
(* atomic step.  A method is written as an operator from the database      *)
(* before the call (a record of tables) to a result record                 *)
(*   [db |-> tables when the body ended, ret |-> value, exc |-> exception] *)
(* and the `transaction` decorator commits or rolls it back.               *)
(*                                                                         *)
(* Optional values (SQL NULL, Python None) are Null = <<>>; a present      *)
(* value x is Some(x) = <<x>>.  Strings that the code lower-cases or       *)
(* searches are sequences of one-character strings.                        *)
(***************************************************************************)
EXTENDS Integers, Sequences, FiniteSets, TLC

(***************************************************************************)
(* Bounds of the model.  Times are clock ticks; the server's intervals are *)
(* configuration (src/ad_index/__main__.py), scaled down to a few ticks.   *)
(***************************************************************************)
MaxTime == 4
MaxQueries == 2
MaxClients == 2
MaxPushItems == 3

\* Server.max_message_retries, .message_retry_interval, .refresh_interval,
\* .ad_text_expiration, .min_notify_interval, .max_ad_history,
\* .session_expiration: the values one run of the server is configured with.
max_message_retries == 2
message_retry_interval == 1
refresh_interval == 2
ad_text_expiration == 2
min_notify_interval == 1
max_ad_history == 2
session_expiration == 3

Null == <<>>
Some(x) == <<x>>
IsNull(v) == v = Null
Val(v) == v[1]


(***************************************************************************)
(* str.lower() and the `in` substring test of Python, on character         *)
(* sequences over a small alphabet.                                        *)
(***************************************************************************)
LowerChar(c) ==
    CASE c = "S" -> "s"
      [] c = "A" -> "a"
      [] c = "B" -> "b"
      [] OTHER -> c

Lower(s) == [i \in DOMAIN s |-> LowerChar(s[i])]

Contains(hay, needle) ==
    \E i \in 0..(Len(hay) - Len(needle)) :
        SubSeq(hay, i + 1, i + Len(needle)) = needle

\* hashlib sha256 hexdigest: injective on the values the model uses.
hash_session_id(s) == <<"sha256", s>>

MAX_NOTIFY_CHARS == 128

(***************************************************************************)
(* The tables of DB._create_tables.  A database value d is a record:       *)
(*   d.ad_queries      ad_query_id -> [nickname, query, filters,           *)
(*                       next_pull, last_pull, last_error, last_notify]    *)
(*   d.clients         client_id -> [vapid_priv, session_id, session_hash, *)
(*                       push_sub, last_seen]                              *)
(*   d.client_subs     set of <<ad_query_id, client_id>>                   *)
(*   d.push_queue      id -> [client_id, message, retry_time, retries]     *)
(*   d.ad_content      <<ad_query_id, id>> -> [start_date, last_seen,      *)
(*                       text_hash, text]                                  *)
(*   d.ad_content_text <<ad_query_id, text_hash>> -> [text, last_seen]     *)
(*   d.seq             the AUTOINCREMENT counters (sqlite_sequence) of     *)
(*                       ad_queries, clients and push_queue                *)
(* account_name, account_url, screenshot and vapid_pub are stored and      *)
(* never read by any decision of the code; they are left out.              *)
(***************************************************************************)
EmptyDB ==
    [ad_queries      |-> <<>>,
     clients         |-> <<>>,
     client_subs     |-> {},
     push_queue      |-> <<>>,
     ad_content      |-> <<>>,
     ad_content_text |-> <<>>,
     seq             |-> [ad_queries |-> 0, clients |-> 0, push_queue |-> 0]]

Restrict(f, S) == [x \in S |-> f[x]]
Put(f, k, v) == (k :> v) @@ f

\* A statement's outcome inside a transaction body.
Ok(d, r) == [db |-> d, ret |-> r, exc |-> "none"]
Raise(d, e) == [db |-> d, ret |-> Null, exc |-> e]

\* The ON DELETE CASCADE clauses of client_subs, push_queue, ad_content and
\* ad_content_text (PRAGMA foreign_keys = ON is set in DB.connect).
CascadeQueriesAndPushes(d, gone) ==
    [d EXCEPT
       !.ad_queries = Restrict(@, DOMAIN @ \ gone),
       !.client_subs = {s \in @ : s[1] \notin gone},
       !.push_queue = Restrict(@, {i \in DOMAIN @ : @[i].message.adQueryId \notin gone}),
       !.ad_content = Restrict(@, {k \in DOMAIN @ : k[1] \notin gone}),
       !.ad_content_text = Restrict(@, {k \in DOMAIN @ : k[1] \notin gone})]

CascadeQueriesButLedger(d, gone) ==
    [d EXCEPT
       !.ad_queries = Restrict(@, DOMAIN @ \ gone),
       !.client_subs = {s \in @ : s[1] \notin gone},
       !.ad_content = Restrict(@, {k \in DOMAIN @ : k[1] \notin gone})]

CascadeQueries(d, gone) ==
    [d EXCEPT
       !.ad_queries = Restrict(@, DOMAIN @ \ gone),
       !.client_subs = {s \in @ : s[1] \notin gone},
       !.ad_content = Restrict(@, {k \in DOMAIN @ : k[1] \notin gone}),
       !.ad_content_text = Restrict(@, {k \in DOMAIN @ : k[1] \notin gone})]

CascadeClientsButQueue(d, gone) ==
    [d EXCEPT
       !.clients = Restrict(@, DOMAIN @ \ gone),
       !.client_subs = {s \in @ : s[2] \notin gone}]

CascadeClients(d, gone) ==
    [d EXCEPT
       !.clients = Restrict(@, DOMAIN @ \ gone),
       !.client_subs = {s \in @ : s[2] \notin gone},
       !.push_queue = Restrict(@, {i \in DOMAIN @ : @[i].client_id \notin gone})]

\* SELECT client_id FROM clients WHERE session_hash=?
ClientsBySession(d, session_id) ==
    {c \in DOMAIN d.clients :
        d.clients[c].session_hash = hash_session_id(session_id)}

(***************************************************************************)
(* def transaction(fn): BEGIN; run the body; on an exception ROLLBACK and  *)
(* re-raise, else COMMIT.  d0 is the database at BEGIN.                    *)
(***************************************************************************)
transaction(d0, r) ==
    IF r.exc # "none" THEN [r EXCEPT !.db = d0] ELSE r

(***************************************************************************)
(* DB._toggle_ad_query_subscription.  `exists` is the cursor object that   *)
(* execute() returns, never the value of the SELECT EXISTS, so             *)
(* `if not exists` never returns.  REPLACE INTO client_subs for an         *)
(* ad_query_id with no ad_queries row violates the foreign key.            *)
(***************************************************************************)
CursorIsTruthy == TRUE

toggle_sub_body(d, ad_query_id, session_id, subscribed) ==
    LET found == ClientsBySession(d, session_id)
        client_id == CHOOSE c \in found : TRUE
        exists == CursorIsTruthy
    IN  IF found = {} THEN Ok(d, FALSE)
        ELSE IF ~exists THEN Ok(d, FALSE)
        ELSE IF subscribed
             THEN IF ad_query_id \notin DOMAIN d.ad_queries
                  THEN Raise(d, "IntegrityError: FOREIGN KEY constraint failed")
                  ELSE Ok([d EXCEPT !.client_subs = @ \cup {<<ad_query_id, client_id>>}],
                          TRUE)
             ELSE Ok([d EXCEPT !.client_subs = @ \ {<<ad_query_id, client_id>>}], TRUE)

toggle_ad_query_subscription(d, ad_query_id, session_id, subscribed) ==
    transaction(d, toggle_sub_body(d, ad_query_id, session_id, subscribed))

(***************************************************************************)
(* DB.insert_ad_query(q, sub_session_id): q = [nickname, query, filters].  *)
(* The UNIQUE(nickname) violation of the INSERT is not caught here.        *)
(* `if sub_session_id:` is Python truthiness: None and the empty string    *)
(* both skip the client lookup and the client_subs INSERT.                 *)
(***************************************************************************)
UniqueNickname == "IntegrityError: UNIQUE constraint failed: ad_queries.nickname"

NicknameTakenNever(d, nickname, except) == FALSE

NicknameTaken(d, nickname, except) ==
    \E a \in DOMAIN d.ad_queries \ except : d.ad_queries[a].nickname = nickname

Truthy(s) == ~IsNull(s) /\ Val(s) # ""

insert_ad_query_body(d, now_, q, sub_session_id) ==
    LET found == IF ~Truthy(sub_session_id) THEN {}
                 ELSE ClientsBySession(d, Val(sub_session_id))
        id == d.seq.ad_queries + 1
        row == [nickname |-> q.nickname, query |-> q.query, filters |-> q.filters,
                next_pull |-> now_, last_pull |-> Null, last_error |-> Null,
                last_notify |-> Null]
        d1 == [d EXCEPT !.ad_queries = Put(@, id, row), !.seq.ad_queries = id]
    IN  IF Truthy(sub_session_id) /\ found = {} THEN Ok(d, Null)
        ELSE IF NicknameTaken(d, q.nickname, {})
             THEN Raise(d, UniqueNickname)
        ELSE IF Truthy(sub_session_id)
             THEN Ok([d1 EXCEPT !.client_subs =
                         @ \cup {<<id, CHOOSE c \in found : TRUE>>}], Some(id))
             ELSE Ok(d1, Some(id))

insert_ad_query(d, now_, q, sub_session_id) ==
    transaction(d, insert_ad_query_body(d, now_, q, sub_session_id))

(***************************************************************************)
(* DB.update_ad_query(q, session_id): q = [nickname, query, filters,       *)
(* ad_query_id, subscribed].  Only the UPDATE is inside the try that turns *)
(* the UNIQUE violation into DataArgumentError.                            *)
(***************************************************************************)
ExceptNothing(exc) == exc

\* except sqlite3.IntegrityError as exc: if "UNIQUE" in str(exc): raise
\* DataArgumentError("name is already in use")
ExceptUnique(exc) ==
    IF exc = UniqueNickname THEN "DataArgumentError: name is already in use" ELSE exc

update_ad_query_keeps_throttle(d, now_, q, session_id) ==
    LET updated_data == q.ad_query_id \in DOMAIN d.ad_queries
        d1 == IF updated_data
              THEN [d EXCEPT !.ad_queries[q.ad_query_id] =
                       [@ EXCEPT !.nickname = q.nickname, !.query = q.query,
                                 !.filters = q.filters, !.next_pull = now_]]
              ELSE d
        t == toggle_sub_body(d1, q.ad_query_id, session_id, q.subscribed)
    IN  IF updated_data /\ NicknameTaken(d, q.nickname, {q.ad_query_id})
        THEN Raise(d, ExceptUnique(UniqueNickname))
        ELSE IF t.exc # "none" THEN t
        ELSE Ok(t.db, [updated_data |-> updated_data, updated_sub |-> t.ret])

update_ad_query_body(d, now_, q, session_id) ==
    LET updated_data == q.ad_query_id \in DOMAIN d.ad_queries
        d1 == IF updated_data
              THEN [d EXCEPT !.ad_queries[q.ad_query_id] =
                       [@ EXCEPT !.nickname = q.nickname, !.query = q.query,
                                 !.filters = q.filters, !.next_pull = now_,
                                 !.last_notify = Null]]
              ELSE d
        t == toggle_sub_body(d1, q.ad_query_id, session_id, q.subscribed)
    IN  IF updated_data /\ NicknameTaken(d, q.nickname, {q.ad_query_id})
        THEN Raise(d, ExceptUnique(UniqueNickname))
        ELSE IF t.exc # "none" THEN t
        ELSE Ok(t.db, [updated_data |-> updated_data, updated_sub |-> t.ret])

update_ad_query(d, now_, q, session_id) ==
    transaction(d, update_ad_query_body(d, now_, q, session_id))

(***************************************************************************)
(* DB.ad_query_next(refresh_interval).  ORDER BY next_pull LIMIT 1 leaves  *)
(* the choice among equal next_pull to sqlite: `pick` is that choice.      *)
(***************************************************************************)
AdQueryDueInclusive(d, now_) ==
    {a \in DOMAIN d.ad_queries : d.ad_queries[a].next_pull <= now_}

AdQueryDue(d, now_) ==
    {a \in DOMAIN d.ad_queries : d.ad_queries[a].next_pull < now_}

AdQueryAnyDue(d, now_) == AdQueryDue(d, now_)

AdQueryFirst(d, now_) ==
    {a \in AdQueryDue(d, now_) :
        \A b \in AdQueryDue(d, now_) :
            d.ad_queries[a].next_pull <= d.ad_queries[b].next_pull}

ad_query_next_due_at_once(d, now_, refresh, pick) ==
    IF AdQueryDue(d, now_) = {} THEN transaction(d, Ok(d, Null))
    ELSE transaction(d,
           Ok([d EXCEPT !.ad_queries[pick].next_pull = now_],
              Some([ad_query_id |-> pick,
                    nickname |-> d.ad_queries[pick].nickname,
                    query |-> d.ad_queries[pick].query,
                    filters |-> d.ad_queries[pick].filters])))

ad_query_next(d, now_, refresh, pick) ==
    IF AdQueryDue(d, now_) = {} THEN transaction(d, Ok(d, Null))
    ELSE transaction(d,
           Ok([d EXCEPT !.ad_queries[pick].next_pull = now_ + refresh],
              Some([ad_query_id |-> pick,
                    nickname |-> d.ad_queries[pick].nickname,
                    query |-> d.ad_queries[pick].query,
                    filters |-> d.ad_queries[pick].filters])))

\* DB.ad_query_finished_pull(ad_query_id, error)
ad_query_finished_pull_upsert(d, now_, ad_query_id, error) ==
    transaction(d,
      Ok([d EXCEPT !.ad_queries =
            Put(@, ad_query_id,
                IF ad_query_id \in DOMAIN @
                THEN [@[ad_query_id] EXCEPT !.last_pull = Some(now_),
                                            !.last_error = error]
                ELSE [nickname |-> "", query |-> "", filters |-> <<>>,
                      next_pull |-> now_, last_pull |-> Some(now_),
                      last_error |-> error, last_notify |-> Null])],
         Null))

ad_query_finished_pull(d, now_, ad_query_id, error) ==
    transaction(d,
      Ok(IF ad_query_id \in DOMAIN d.ad_queries
         THEN [d EXCEPT !.ad_queries[ad_query_id] =
                  [@ EXCEPT !.last_pull = Some(now_), !.last_error = error]]
         ELSE d,
         Null))

\* DB.delete_ad_query(id)
delete_ad_query(d, id) ==
    transaction(d, Ok(CascadeQueries(d, {id}), id \in DOMAIN d.ad_queries))

(***************************************************************************)
(* DB.create_session: the INSERT fails on UNIQUE(session_hash).            *)
(***************************************************************************)
create_session(d, now_, vapid_priv, session_id) ==
    LET id == d.seq.clients + 1
        row == [vapid_priv |-> vapid_priv, session_id |-> session_id,
                session_hash |-> hash_session_id(session_id),
                push_sub |-> Null, last_seen |-> now_]
    IN  transaction(d,
          IF ClientsBySession(d, session_id) # {}
          THEN Raise(d, "IntegrityError: UNIQUE constraint failed: clients.session_hash")
          ELSE Ok([d EXCEPT !.clients = Put(@, id, row), !.seq.clients = id], Null))

\* DB.cleanup_sessions(expiration_time)
cleanup_sessions(d, now_, expiration_time) ==
    transaction(d,
      Ok(CascadeClients(d, {c \in DOMAIN d.clients :
                               d.clients[c].last_seen < now_ - expiration_time}),
         Null))

(***************************************************************************)
(* DB.update_client_push_sub(session_id, push_sub).  push_sub is the JSON  *)
(* text of the request or Python None; json.loads(None) raises TypeError,  *)
(* the JSON literal null is stored as SQL NULL.                            *)
(***************************************************************************)
JsonNull == "null"

update_client_push_sub_keeps_queue(d, now_, session_id, push_sub) ==
    LET stored == IF Val(push_sub) = JsonNull THEN Null ELSE push_sub
        found == ClientsBySession(d, session_id)
        count == Cardinality(found)
        d1 == [d EXCEPT !.clients =
                 [c \in DOMAIN @ |->
                    IF c \in found
                    THEN [@[c] EXCEPT !.push_sub = stored, !.last_seen = now_]
                    ELSE @[c]]]
    IN  transaction(d,
          IF IsNull(push_sub) THEN Raise(d, "TypeError: the JSON object must be str")
          ELSE Ok(d1, count # 0))

update_client_push_sub(d, now_, session_id, push_sub) ==
    LET stored == IF Val(push_sub) = JsonNull THEN Null ELSE push_sub
        found == ClientsBySession(d, session_id)
        count == Cardinality(found)
        d1 == [d EXCEPT !.clients =
                 [c \in DOMAIN @ |->
                    IF c \in found
                    THEN [@[c] EXCEPT !.push_sub = stored, !.last_seen = now_]
                    ELSE @[c]]]
        d2 == IF count # 0 /\ IsNull(stored)
              THEN [d1 EXCEPT !.push_queue =
                      Restrict(@, {i \in DOMAIN @ : @[i].client_id \notin found})]
              ELSE d1
    IN  transaction(d,
          IF IsNull(push_sub) THEN Raise(d, "TypeError: the JSON object must be str")
          ELSE Ok(d2, count # 0))

(***************************************************************************)
(* DB.push_queue_next(retry_timeout).  ORDER BY retry_time, first row:     *)
(* `pick` is sqlite's choice among equal retry_time.  The row is written   *)
(* with retries + 1; the PushQueueItem returned carries the retries that   *)
(* the SELECT read.                                                        *)
(***************************************************************************)
PushDue(d, now_) ==
    {i \in DOMAIN d.push_queue : d.push_queue[i].retry_time <= now_}

PushAnyDue(d, now_) == PushDue(d, now_)

PushFirst(d, now_) ==
    {i \in PushDue(d, now_) :
        \A j \in PushDue(d, now_) :
            d.push_queue[i].retry_time <= d.push_queue[j].retry_time}

ReturnedRetriesIncremented(retries) == retries + 1

ReturnedRetries(retries) == retries

push_queue_next_no_delay(d, now_, retry_timeout, pick) ==
    IF PushDue(d, now_) = {} THEN transaction(d, Ok(d, Null))
    ELSE LET row == d.push_queue[pick]
             retries == row.retries
         IN  transaction(d,
               Ok([d EXCEPT !.push_queue[pick] =
                      [@ EXCEPT !.retry_time = now_, !.retries = retries + 1]],
                  Some([id |-> pick,
                        client_id |-> row.client_id,
                        push_info |-> [push_sub |-> d.clients[row.client_id].push_sub,
                                       vapid_priv |-> d.clients[row.client_id].vapid_priv],
                        message |-> row.message,
                        retries |-> ReturnedRetries(retries)])))

push_queue_next(d, now_, retry_timeout, pick) ==
    IF PushDue(d, now_) = {} THEN transaction(d, Ok(d, Null))
    ELSE LET row == d.push_queue[pick]
             retries == row.retries
         IN  transaction(d,
               Ok([d EXCEPT !.push_queue[pick] =
                      [@ EXCEPT !.retry_time = now_ + retry_timeout,
                                !.retries = retries + 1]],
                  Some([id |-> pick,
                        client_id |-> row.client_id,
                        push_info |-> [push_sub |-> d.clients[row.client_id].push_sub,
                                       vapid_priv |-> d.clients[row.client_id].vapid_priv],
                        message |-> row.message,
                        retries |-> ReturnedRetries(retries)])))

push_queue_finish_client(d, now_, id, unsub_client) ==
    LET owner == IF id \in DOMAIN d.push_queue THEN {d.push_queue[id].client_id} ELSE {}
        d1 == [d EXCEPT !.clients =
                 [c \in DOMAIN @ |->
                    IF c \in owner
                    THEN IF unsub_client THEN [@[c] EXCEPT !.push_sub = Null]
                         ELSE [@[c] EXCEPT !.last_seen = now_]
                    ELSE @[c]]]
    IN  transaction(d,
          Ok([d1 EXCEPT !.push_queue =
                 Restrict(@, {i \in DOMAIN @ : @[i].client_id \notin owner})], Null))

\* DB.push_queue_finish(id, unsub_client)
push_queue_finish(d, now_, id, unsub_client) ==
    LET owner == IF id \in DOMAIN d.push_queue THEN {d.push_queue[id].client_id} ELSE {}
        d1 == [d EXCEPT !.clients =
                 [c \in DOMAIN @ |->
                    IF c \in owner
                    THEN IF unsub_client THEN [@[c] EXCEPT !.push_sub = Null]
                         ELSE [@[c] EXCEPT !.last_seen = now_]
                    ELSE @[c]]]
    IN  transaction(d,
          Ok([d1 EXCEPT !.push_queue = Restrict(@, DOMAIN @ \ {id})], Null))

unseen_ad_ids_any_query(d, ad_query_id, ids) ==
    LET seen == {x \in ids : \E k \in DOMAIN d.ad_content : k[2] = x}
    IN  {x \in ids : x \notin seen}

\* DB.unseen_ad_ids(ad_query_id, ids)
unseen_ad_ids(d, ad_query_id, ids) ==
    LET seen == {x \in ids : <<ad_query_id, x>> \in DOMAIN d.ad_content}
    IN  {x \in ids : x \notin seen}

(***************************************************************************)
(* DB.insert_ad.  start_date and text are the Optional fields of           *)
(* client.SearchResult: text.lower() raises on None, and the NOT NULL      *)
(* start_date column rejects None (INSERT OR REPLACE aborts on NOT NULL    *)
(* for a column with no default).  execute_insert returns the              *)
(* last_insert_rowid row, which is never falsy.  The result also carries   *)
(* the locals count and should_notify.                                     *)
(***************************************************************************)
TextIsFreshNarrow(last_seen, now_, text_expiration) ==
    last_seen > now_ - text_expiration + 1

TextIsFresh(last_seen, now_, text_expiration) == last_seen > now_ - text_expiration

ShouldNotifyAtInterval(last_notify, now_, min_interval) ==
    IsNull(last_notify) \/ Val(last_notify) <= now_ - min_interval

ShouldNotify(last_notify, now_, min_interval) ==
    IsNull(last_notify) \/ Val(last_notify) < now_ - min_interval

NotifyAllSubscribers(d, ad_query_id) ==
    {s[2] : s \in {x \in d.client_subs : x[1] = ad_query_id}}

\* client_subs rows of the query whose client has push_sub IS NOT NULL
NotifyTargets(d, ad_query_id) ==
    {s[2] : s \in {x \in d.client_subs :
                      x[1] = ad_query_id /\ ~IsNull(d.clients[x[2]].push_sub)}}

Truncate(text, n) == SubSeq(text, 1, IF Len(text) < n THEN Len(text) ELSE n)

NotifyMessage(d, ad_query_id, id, text) ==
    [adQueryId |-> ad_query_id,
     nickname |-> d.ad_queries[ad_query_id].nickname,
     ad |-> [id |-> id, text |-> Truncate(text, MAX_NOTIFY_CHARS)]]

\* INSERT INTO push_queue ... SELECT ... FROM client_subs: one row per
\* target, ids allotted in the order of the (ad_query_id, client_id) index.
FanOutReusingIds(d, now_, targets, message) ==
    LET base == IF DOMAIN d.push_queue = {} THEN 0
                ELSE CHOOSE m \in DOMAIN d.push_queue :
                        \A i \in DOMAIN d.push_queue : i <= m
        rank(c) == Cardinality({x \in targets : x <= c})
        new == [i \in {base + rank(c) : c \in targets} |->
                  [client_id |-> CHOOSE c \in targets : base + rank(c) = i,
                   message |-> message, retry_time |-> now_, retries |-> 0]]
    IN  [d EXCEPT !.push_queue = new @@ @,
                  !.seq.push_queue = base + Cardinality(targets)]

FanOut(d, now_, targets, message) ==
    LET rank(c) == Cardinality({x \in targets : x <= c})
        new == [i \in {d.seq.push_queue + rank(c) : c \in targets} |->
                  [client_id |-> CHOOSE c \in targets : d.seq.push_queue + rank(c) = i,
                   message |-> message, retry_time |-> now_, retries |-> 0]]
    IN  [d EXCEPT !.push_queue = new @@ @,
                  !.seq.push_queue = @ + Cardinality(targets)]

SetLastNotify(d, ad_query_id, now_) ==
    [d EXCEPT !.ad_queries[ad_query_id].last_notify = Some(now_)]

insert_ad_body(d, now_, ad_query_id, id, start_date, text, text_expiration, min_interval) ==
    LET t == Val(text)
        text_hash == hash_session_id(Lower(t))
        d1 == [d EXCEPT !.ad_content =
                 Put(@, <<ad_query_id, id>>,
                     [start_date |-> Val(start_date), last_seen |-> now_,
                      text_hash |-> text_hash, text |-> t])]
        key == <<ad_query_id, text_hash>>
        count == IF key \in DOMAIN d1.ad_content_text
                    /\ TextIsFresh(d1.ad_content_text[key].last_seen, now_, text_expiration)
                 THEN 1 ELSE 0
        d2 == [d1 EXCEPT !.ad_content_text =
                 Put(@, key, [text |-> t, last_seen |-> now_])]
        should_notify == ShouldNotify(d2.ad_queries[ad_query_id].last_notify,
                                      now_, min_interval)
        d3 == IF count = 0 /\ should_notify
              THEN SetLastNotify(
                     FanOut(d2, now_, NotifyTargets(d2, ad_query_id),
                            NotifyMessage(d2, ad_query_id, id, t)),
                     ad_query_id, now_)
              ELSE d2
        none == [count |-> 0, should_notify |-> FALSE]
    IN  IF ad_query_id \notin DOMAIN d.ad_queries
        THEN Ok(d, FALSE) @@ none
        ELSE IF IsNull(text)
        THEN Raise(d, "AttributeError: 'NoneType' object has no attribute 'lower'") @@ none
        ELSE IF IsNull(start_date)
        THEN Raise(d, "IntegrityError: NOT NULL constraint failed: ad_content.start_date")
             @@ none
        ELSE Ok(d3, TRUE) @@ [count |-> count, should_notify |-> should_notify]

insert_ad(d, now_, ad_query_id, id, start_date, text, text_expiration, min_interval) ==
    transaction(d, insert_ad_body(d, now_, ad_query_id, id, start_date, text,
                                  text_expiration, min_interval))

(***************************************************************************)
(* DB.cleanup_ads(max_ads, text_expiration).  ORDER BY last_seen DESC,     *)
(* start_date DESC LIMIT -1 OFFSET max_ads leaves the order of equal rows  *)
(* to sqlite: `keep` is the set of ad_content keys that survive, any set   *)
(* that some such order yields.                                            *)
(***************************************************************************)
AdsOf(d, q) == {k \in DOMAIN d.ad_content : k[1] = q}

OrderedBeforeAscending(a, b) ==
    \/ a.last_seen < b.last_seen
    \/ a.last_seen = b.last_seen /\ a.start_date < b.start_date

OrderedBefore(a, b) ==
    \/ a.last_seen > b.last_seen
    \/ a.last_seen = b.last_seen /\ a.start_date > b.start_date

LargeQueriesOffByOne(d, max_ads) ==
    {q \in {k[1] : k \in DOMAIN d.ad_content} : Cardinality(AdsOf(d, q)) > max_ads + 1}

LargeQueries(d, max_ads) ==
    {q \in {k[1] : k \in DOMAIN d.ad_content} : Cardinality(AdsOf(d, q)) > max_ads}

CleanupKeeps(d, max_ads) ==
    {keep \in SUBSET DOMAIN d.ad_content :
        \A q \in {k[1] : k \in DOMAIN d.ad_content} :
            IF q \in LargeQueries(d, max_ads)
            THEN /\ Cardinality(keep \cap AdsOf(d, q)) = max_ads
                 /\ \A k \in keep \cap AdsOf(d, q) : \A r \in AdsOf(d, q) \ keep :
                        ~OrderedBefore(d.ad_content[r], d.ad_content[k])
            ELSE AdsOf(d, q) \subseteq keep}

cleanup_ads_by_age(d, now_, max_ads, text_expiration, keep) ==
    LET d1 == [d EXCEPT !.ad_content = Restrict(@, keep)]
        expired == {k \in DOMAIN d1.ad_content_text :
                       d1.ad_content_text[k].last_seen < now_ - text_expiration}
    IN  transaction(d,
          Ok([d1 EXCEPT !.ad_content_text = Restrict(@, DOMAIN @ \ expired)], Null))

cleanup_ads_early(d, now_, max_ads, text_expiration, keep) ==
    LET d1 == [d EXCEPT !.ad_content = Restrict(@, keep)]
        referenced == {<<k[1], d1.ad_content[k].text_hash>> : k \in DOMAIN d1.ad_content}
        expired == {k \in DOMAIN d1.ad_content_text :
                       /\ d1.ad_content_text[k].last_seen < now_ - text_expiration + 2
                       /\ k \notin referenced}
    IN  transaction(d,
          Ok([d1 EXCEPT !.ad_content_text = Restrict(@, DOMAIN @ \ expired)], Null))

cleanup_ads(d, now_, max_ads, text_expiration, keep) ==
    LET d1 == [d EXCEPT !.ad_content = Restrict(@, keep)]
        referenced == {<<k[1], d1.ad_content[k].text_hash>> : k \in DOMAIN d1.ad_content}
        expired == {k \in DOMAIN d1.ad_content_text :
                       /\ d1.ad_content_text[k].last_seen < now_ - text_expiration
                       /\ k \notin referenced}
    IN  transaction(d,
          Ok([d1 EXCEPT !.ad_content_text = Restrict(@, DOMAIN @ \ expired)], Null))

(***************************************************************************)
(* The state.  The seven tables and counters of the database; the clock    *)
(* that STRFTIME('%s') reads; the local state of the two worker tasks that *)
(* Server.__init__ starts; and two history variables:                      *)
(*   last  the latest step: the Store method called, its arguments, the    *)
(*         clock at the call, what it returned or raised;                  *)
(*   hist  per query, when insert_ad last fanned out and whether           *)
(*         update_ad_query has committed on it since; per push-queue id,   *)
(*         how many times push_queue_next has leased it; per query, when   *)
(*         ad_query_next last leased it, if update_ad_query has not        *)
(*         committed on it since.                                          *)
(* tx is the state of DB._lock and of the open transaction, used where the *)
(* statements of a method are taken one at a time.                         *)
(***************************************************************************)
VARIABLES now, ad_queries, clients, client_subs, push_queue, ad_content,
          ad_content_text, seq, pq_item, ql, tx, last, hist

tables == <<ad_queries, clients, client_subs, push_queue, ad_content,
            ad_content_text, seq>>
workers == <<pq_item, ql, tx>>
vars == <<now, ad_queries, clients, client_subs, push_queue, ad_content,
          ad_content_text, seq, pq_item, ql, tx, last, hist>>

DB == [ad_queries |-> ad_queries, clients |-> clients, client_subs |-> client_subs,
       push_queue |-> push_queue, ad_content |-> ad_content,
       ad_content_text |-> ad_content_text, seq |-> seq]

\* COMMIT (or the state ROLLBACK restored): the tables become those of d.
Commit(d) ==
    /\ ad_queries' = d.ad_queries
    /\ clients' = d.clients
    /\ client_subs' = d.client_subs
    /\ push_queue' = d.push_queue
    /\ ad_content' = d.ad_content
    /\ ad_content_text' = d.ad_content_text
    /\ seq' = d.seq

QueryIds == 1..MaxQueries
ClientIds == 1..MaxClients
PushIds == 1..MaxPushItems

HistInit ==
    [fanout |-> [q \in QueryIds |-> Null],
     updated |-> [q \in QueryIds |-> FALSE],
     leases |-> [i \in PushIds |-> 0],
     leased |-> [q \in QueryIds |-> Null]]

\* Server._query_loop before its first statement; Server._push_queue_loop
\* before its first push_queue_next.
QlInit == [pc |-> "startup", query |-> Null, results |-> <<>>, new_ids |-> {},
           todo |-> <<>>]

(***************************************************************************)
(* The callers of the Store: the crawl worker, the push dispatcher and an  *)
(* API handler, each a coroutine that calls one method at a time.  tx is   *)
(* the state of DB._lock and of the connection's open transaction:         *)
(*   lock      the task that holds DB._lock, if any                        *)
(*   waiters   the tasks waiting in DB._lock.acquire(), oldest first       *)
(*   begin     the tables when BEGIN TRANSACTION ran (what ROLLBACK        *)
(*             restores), and begin_time the clock then                    *)
(*   pc, call, k, loc, ret, exc, attempts: per task, where it is in        *)
(*             `transaction`, the method and arguments, the next statement *)
(*             of the body, the body's locals, what the body returned or   *)
(*             raised, and how many times _retry has started the body      *)
(***************************************************************************)
Tasks == {"crawl", "push", "api"}

LocInit == [nickname |-> "", count |-> 0, pick |-> 0, item |-> Null,
            updated_data |-> FALSE, found |-> {}]

TxInit ==
    [lock |-> Null, waiters |-> <<>>, begin |-> Null, begin_time |-> 0,
     pc |-> [t \in Tasks |-> "idle"],
     call |-> [t \in Tasks |-> [op |-> "none"]],
     k |-> [t \in Tasks |-> 0],
     loc |-> [t \in Tasks |-> LocInit],
     ret |-> [t \in Tasks |-> Null],
     exc |-> [t \in Tasks |-> "none"],
     attempts |-> [t \in Tasks |-> 0]]

\* The loop between two passes, about to call ad_query_next.
QlIdle == [QlInit EXCEPT !.pc = "next"]

\* The database d at time 0, both workers not yet started (the crawl worker
\* is before its startup cleanup, not idle).
StartAt(d) ==
    /\ now = 0
    /\ ad_queries = d.ad_queries
    /\ clients = d.clients
    /\ client_subs = d.client_subs
    /\ push_queue = d.push_queue
    /\ ad_content = d.ad_content
    /\ ad_content_text = d.ad_content_text
    /\ seq = d.seq
    /\ pq_item = Null
    /\ ql = QlInit
    /\ QlIdle # QlInit
    /\ tx = TxInit
    /\ last = [op |-> "init"]
    /\ hist = HistInit

\* The clock advances; nothing else changes.
Tick ==
    /\ now < MaxTime
    /\ now' = now + 1
    /\ last' = [op |-> "tick"]
    /\ UNCHANGED <<tables, workers, hist>>

(***************************************************************************)
(* Store methods called by the API handlers of server.py.                  *)
(***************************************************************************)
CreateSession(session_id) ==
    LET r == create_session(DB, now, <<"pem", session_id>>, session_id)
    IN  /\ seq.clients < MaxClients
        /\ Commit(r.db)
        /\ last' = [op |-> "create_session", session_id |-> session_id, t |-> now,
                    ret |-> r.ret, exc |-> r.exc]
        /\ UNCHANGED <<now, workers, hist>>

CleanupSessions ==
    LET r == cleanup_sessions(DB, now, session_expiration)
    IN  /\ Commit(r.db)
        /\ last' = [op |-> "cleanup_sessions", t |-> now, ret |-> r.ret, exc |-> r.exc,
                    expired |-> DOMAIN clients \ DOMAIN r.db.clients,
                    had_rows |-> \E c \in DOMAIN clients \ DOMAIN r.db.clients :
                                    /\ \E x \in client_subs : x[2] = c
                                    /\ \E i \in DOMAIN push_queue :
                                          push_queue[i].client_id = c]
        /\ UNCHANGED <<now, workers, hist>>

UpdateClientPushSub(session_id, push_sub) ==
    LET r == update_client_push_sub(DB, now, session_id, push_sub)
    IN  /\ Commit(r.db)
        /\ last' = [op |-> "update_client_push_sub", session_id |-> session_id,
                    push_sub |-> push_sub, t |-> now, ret |-> r.ret, exc |-> r.exc]
        /\ UNCHANGED <<now, workers, hist>>

\* rewrite_db_errors, and the same except clause of api_update_ad_query:
\* an IntegrityError whose text holds "UNIQUE" and "nickname" becomes
\* APIError("nickname is not unique"); anything else passes.
rewrite_db_errors(exc) ==
    IF exc = UniqueNickname THEN "APIError: nickname is not unique" ELSE exc

InsertAdQuery(q, sub_session_id) ==
    LET r == insert_ad_query(DB, now, q, sub_session_id)
    IN  /\ seq.ad_queries < MaxQueries
        /\ Commit(r.db)
        /\ last' = [op |-> "insert_ad_query", q |-> q, sub_session_id |-> sub_session_id,
                    t |-> now, ret |-> r.ret, exc |-> r.exc,
                    api_exc |-> rewrite_db_errors(r.exc)]
        /\ UNCHANGED <<now, workers, hist>>

UpdateAdQuery(q, session_id) ==
    LET r == update_ad_query(DB, now, q, session_id)
    IN  /\ Commit(r.db)
        /\ last' = [op |-> "update_ad_query", q |-> q, session_id |-> session_id,
                    t |-> now, ret |-> r.ret, exc |-> r.exc,
                    api_exc |-> rewrite_db_errors(r.exc)]
        /\ hist' = IF r.exc = "none" /\ q.ad_query_id \in DOMAIN ad_queries
                   THEN [hist EXCEPT !.updated[q.ad_query_id] = TRUE,
                                     !.leased[q.ad_query_id] = Null]
                   ELSE hist
        /\ UNCHANGED <<now, workers>>

ToggleAdQuerySubscription(ad_query_id, session_id, subscribed) ==
    LET r == toggle_ad_query_subscription(DB, ad_query_id, session_id, subscribed)
    IN  /\ Commit(r.db)
        /\ last' = [op |-> "toggle_ad_query_subscription", ad_query_id |-> ad_query_id,
                    session_id |-> session_id, subscribed |-> subscribed,
                    t |-> now, ret |-> r.ret, exc |-> r.exc]
        /\ UNCHANGED <<now, workers, hist>>

DeleteAdQuery(id) ==
    LET r == delete_ad_query(DB, id)
    IN  /\ Commit(r.db)
        /\ last' = [op |-> "delete_ad_query", id |-> id, t |-> now,
                    ret |-> Some(r.ret), exc |-> r.exc,
                    had_rows |-> /\ \E x \in client_subs : x[1] = id
                                 /\ \E k \in DOMAIN ad_content : k[1] = id
                                 /\ \E k \in DOMAIN ad_content_text : k[1] = id]
        /\ UNCHANGED <<now, workers, hist>>

(***************************************************************************)
(* One insert_ad transaction, as the crawl worker (or any caller of the    *)
(* Store) issues it.                                                       *)
(***************************************************************************)
Notified(r) == r.exc = "none" /\ r.ret = TRUE /\ r.count = 0 /\ r.should_notify

InsertAdCall(ad_query_id, id, start_date, text) ==
    LET r == insert_ad(DB, now, ad_query_id, id, start_date, text,
                       ad_text_expiration, min_notify_interval)
    IN  /\ r.db.seq.push_queue <= MaxPushItems
        /\ Commit(r.db)
        /\ last' = [op |-> "insert_ad", ad_query_id |-> ad_query_id, id |-> id,
                    text |-> text, t |-> now, ret |-> r.ret, exc |-> r.exc,
                    count |-> r.count, should_notify |-> r.should_notify,
                    notified |-> Notified(r),
                    prev_fanout |-> IF ad_query_id \in QueryIds
                                    THEN hist.fanout[ad_query_id] ELSE Null,
                    prev_updated |-> IF ad_query_id \in QueryIds
                                     THEN hist.updated[ad_query_id] ELSE FALSE]
        /\ hist' = IF Notified(r)
                   THEN [hist EXCEPT !.fanout[ad_query_id] = Some(now),
                                     !.updated[ad_query_id] = FALSE]
                   ELSE hist

InsertAd(ad_query_id, id, start_date, text) ==
    /\ InsertAdCall(ad_query_id, id, start_date, text)
    /\ UNCHANGED <<now, workers>>

\* DB.ad_query_next called on its own: the lease with nothing after it.
AdQueryNext ==
    /\ \E pick \in IF AdQueryDue(DB, now) = {} THEN {0} ELSE AdQueryFirst(DB, now) :
         LET r == ad_query_next(DB, now, refresh_interval, pick)
         IN  /\ Commit(r.db)
             /\ last' = [op |-> "ad_query_next", t |-> now, ret |-> r.ret, exc |-> r.exc,
                         next_pull |-> IF IsNull(r.ret) THEN Null
                                       ELSE Some(ad_queries[pick].next_pull),
                         prev_lease |-> IF IsNull(r.ret) THEN Null
                                        ELSE hist.leased[pick]]
             /\ hist' = IF IsNull(r.ret) THEN hist
                        ELSE [hist EXCEPT !.leased[pick] = Some(now)]
    /\ UNCHANGED <<now, workers>>

CleanupAdsCall ==
    \E keep \in CleanupKeeps(DB, max_ad_history) :
        LET r == cleanup_ads(DB, now, max_ad_history, ad_text_expiration, keep)
        IN  /\ Commit(r.db)
            /\ last' = [op |-> "cleanup_ads", t |-> now, ret |-> r.ret, exc |-> r.exc,
                        deleted |-> {[key |-> k, last_seen |-> ad_content[k].last_seen,
                                      start_date |-> ad_content[k].start_date] :
                                     k \in DOMAIN ad_content \ DOMAIN r.db.ad_content},
                        expired |-> DOMAIN ad_content_text
                                      \ DOMAIN r.db.ad_content_text]

CleanupAds ==
    /\ CleanupAdsCall
    /\ UNCHANGED <<now, workers, hist>>

(***************************************************************************)
(* Server._push_queue_loop.  PushLoopNext is the push_queue_next call      *)
(* (None: sleep and call again).  PushLoopSend is the end of               *)
(* Notifier.notify for the leased item and what the loop does then:        *)
(* notify raises when the sender fails, and also when push_sub is None     *)
(* (json.loads(None)); the bare except turns either into success = False.  *)
(***************************************************************************)
NotifySucceedsOnNullSub(push_info, sender_ok) == sender_ok

NotifySucceeds(push_info, sender_ok) == ~IsNull(push_info.push_sub) /\ sender_ok

GivesUpOneLater(item) == item.retries > max_message_retries

GivesUpNever(item) == FALSE

GivesUp(item) == item.retries >= max_message_retries

PushLoopNext ==
    /\ IsNull(pq_item)
    /\ \E pick \in IF PushDue(DB, now) = {} THEN {0} ELSE PushFirst(DB, now) :
         LET r == push_queue_next(DB, now, message_retry_interval, pick)
         IN  /\ Commit(r.db)
             /\ pq_item' = r.ret
             /\ last' = [op |-> "push_queue_next", t |-> now, ret |-> r.ret,
                         exc |-> r.exc]
             /\ hist' = IF IsNull(r.ret) THEN hist
                        ELSE [hist EXCEPT !.leases[pick] = @ + 1]
    /\ UNCHANGED <<now, ql, tx>>

PushLoopSend(sender_ok) ==
    /\ ~IsNull(pq_item)
    /\ LET item == Val(pq_item)
           success == NotifySucceeds(item.push_info, sender_ok)
       IN  IF success \/ GivesUp(item)
           THEN LET r == push_queue_finish(DB, now, item.id, ~success)
                IN  /\ Commit(r.db)
                    /\ last' = [op |-> "push_queue_finish", id |-> item.id,
                                unsub_client |-> ~success, item |-> item,
                                was_queued |-> item.id \in DOMAIN push_queue,
                                t |-> now, ret |-> r.ret, exc |-> r.exc]
           ELSE /\ UNCHANGED tables
                /\ last' = [op |-> "push_left_queued", id |-> item.id, item |-> item,
                            was_queued |-> item.id \in DOMAIN push_queue, t |-> now]
    /\ pq_item' = Null
    /\ UNCHANGED <<now, ql, tx, hist>>

(***************************************************************************)
(* Server._query_loop.  A browser result is a client.SearchResult          *)
(* [id, start_date, text] with start_date and text Optional.  Each action  *)
(* is one await of the loop together with the statements up to the next    *)
(* await; a step that ends the pass resets the loop's locals.              *)
(***************************************************************************)
InReturnedOrder(s) == s

\* results[::-1]
Reverse(s) == [i \in 1..Len(s) |-> s[Len(s) + 1 - i]]

\* The list comprehension of lines 301-306: `x.tolower()` is evaluated for
\* the first filter of the first result whenever there are filters and
\* results, and str has no attribute tolower.
FilterRaises(filters, results) == Len(results) # 0 /\ Len(filters) # 0

FilterResults(filters, results) ==
    IF FilterRaises(filters, results)
    THEN [exc |-> "AttributeError: 'str' object has no attribute 'tolower'",
          results |-> <<>>]
    ELSE [exc |-> "none", results |-> results]

\* `step` names the await that the call follows, `browser` what
\* client.query gave in this pass.
FinishedPullCall(ad_query_id, error, step, browser) ==
    LET r == ad_query_finished_pull(DB, now, ad_query_id, error)
    IN  /\ Commit(r.db)
        /\ last' = [op |-> "ad_query_finished_pull", ad_query_id |-> ad_query_id,
                    error |-> error, step |-> step, browser |-> browser,
                    filters |-> Val(ql.query).filters,
                    t |-> now, ret |-> r.ret, exc |-> r.exc]

QueryLoopStartup ==
    /\ ql.pc = "startup"
    /\ CleanupAdsCall
    /\ ql' = QlIdle
    /\ UNCHANGED <<now, pq_item, tx, hist>>

QueryLoopNext ==
    /\ ql.pc = "next"
    /\ \E pick \in IF AdQueryDue(DB, now) = {} THEN {0} ELSE AdQueryFirst(DB, now) :
         LET r == ad_query_next(DB, now, refresh_interval, pick)
         IN  /\ Commit(r.db)
             /\ last' = [op |-> "ad_query_next", t |-> now, ret |-> r.ret, exc |-> r.exc]
             /\ ql' = IF IsNull(r.ret) THEN ql
                      ELSE [ql EXCEPT !.pc = "fetch", !.query = r.ret]
             /\ hist' = IF IsNull(r.ret) THEN hist
                        ELSE [hist EXCEPT !.leased[pick] = Some(now)]
    /\ UNCHANGED <<now, pq_item, tx>>

\* client.query raised (browser = Null) or returned the list Val(browser).
QueryLoopFetch(browser) ==
    /\ ql.pc = "fetch"
    /\ LET query == Val(ql.query)
           f == FilterResults(query.filters, Val(browser))
       IN  IF IsNull(browser)
           THEN /\ FinishedPullCall(query.ad_query_id, Some("ResultParseError"),
                                     "fetch", browser)
                /\ ql' = QlIdle
           ELSE IF f.exc # "none"
           THEN /\ FinishedPullCall(query.ad_query_id, Some(f.exc), "fetch", browser)
                /\ ql' = QlIdle
           ELSE /\ ql' = [ql EXCEPT
                            !.pc = "screenshot",
                            !.results = f.results,
                            !.new_ids = unseen_ad_ids(DB, query.ad_query_id,
                                          {f.results[i].id : i \in DOMAIN f.results})]
                /\ last' = [op |-> "unseen_ad_ids", ad_query_id |-> query.ad_query_id,
                            browser |-> browser, filters |-> query.filters, t |-> now]
                /\ UNCHANGED tables
    /\ UNCHANGED <<now, pq_item, tx, hist>>

\* client.screenshot_ids returned (ok) or raised.
QueryLoopScreenshot(ok) ==
    /\ ql.pc = "screenshot"
    /\ IF ok
       THEN /\ ql' = [ql EXCEPT !.pc = "insert", !.todo = Reverse(ql.results)]
            /\ last' = [op |-> "screenshot_ids", t |-> now]
            /\ UNCHANGED tables
       ELSE /\ FinishedPullCall(Val(ql.query).ad_query_id, Some("ResultParseError"),
                                 "screenshot", Some(ql.results))
            /\ ql' = QlIdle
    /\ UNCHANGED <<now, pq_item, tx, hist>>

\* `if result.id not in new_ids: continue`
QueryLoopSkip ==
    /\ ql.pc = "insert"
    /\ ql.todo # <<>>
    /\ Head(ql.todo).id \notin ql.new_ids
    /\ ql' = [ql EXCEPT !.todo = Tail(@)]
    /\ last' = [op |-> "skip", id |-> Head(ql.todo).id, t |-> now]
    /\ UNCHANGED <<now, tables, pq_item, tx, hist>>

\* The insert_ad call of the for loop: no try encloses it, so an exception
\* ends the task.
QueryLoopInsert ==
    /\ ql.pc = "insert"
    /\ ql.todo # <<>>
    /\ Head(ql.todo).id \in ql.new_ids
    /\ LET result == Head(ql.todo)
       IN  InsertAdCall(Val(ql.query).ad_query_id, result.id, result.start_date,
                        result.text)
    /\ ql' = IF last'.exc # "none" THEN [ql EXCEPT !.pc = "dead"]
             ELSE [ql EXCEPT !.todo = Tail(@)]
    /\ UNCHANGED <<now, pq_item, tx>>

QueryLoopFinished ==
    /\ ql.pc = "insert"
    /\ ql.todo = <<>>
    /\ FinishedPullCall(Val(ql.query).ad_query_id, Null, "finished", Some(ql.results))
    /\ ql' = [ql EXCEPT !.pc = "cleanup"]
    /\ UNCHANGED <<now, pq_item, tx, hist>>

QueryLoopCleanup ==
    /\ ql.pc = "cleanup"
    /\ CleanupAdsCall
    /\ ql' = QlIdle
    /\ UNCHANGED <<now, pq_item, tx, hist>>

(***************************************************************************)
(* Inputs of the specifications.                                           *)
(***************************************************************************)
PushSubs == {Some("sub")}

\* The database after, at time 0: create_session for s1, which registers a
\* push subscription; insert_ad_query of n1 and of n2 (no filters), both
\* subscribed by s1.
SeedClient ==
    LET a == create_session(EmptyDB, 0, <<"pem", "s1">>, "s1").db
    IN  update_client_push_sub(a, 0, "s1", Some("sub")).db

SeedQueries ==
    LET a == insert_ad_query(SeedClient, 0,
                 [nickname |-> "n1", query |-> "q1", filters |-> <<>>], Some("s1")).db
    IN  insert_ad_query(a, 0,
                 [nickname |-> "n2", query |-> "q2", filters |-> <<>>], Some("s1")).db

\* ... and then one novel ad inserted for each query: two queued pushes.
SeedQueued ==
    LET a == insert_ad(SeedQueries, 0, 1, "a1", Some(1), Some(<<"S", "a">>),
                       ad_text_expiration, min_notify_interval).db
    IN  insert_ad(a, 0, 2, "a1", Some(1), Some(<<"S", "a">>),
                  ad_text_expiration, min_notify_interval).db

(***************************************************************************)
(* SpecPush: the push dispatcher working off two queued pushes of one      *)
(* client, which may re-register or drop its push subscription.            *)
(***************************************************************************)
InitPush == StartAt(SeedQueued)

NextPush ==
    \/ Tick
    \/ PushLoopNext
    \/ \E sender_ok \in BOOLEAN : PushLoopSend(sender_ok)
    \/ \E push_sub \in PushSubs \cup {Some(JsonNull)} :
          UpdateClientPushSub("s1", push_sub)

SpecPush == InitPush /\ [][NextPush]_vars

\* C3: no push-queue item is ever leased more than max_message_retries + 1
\* times, whatever the sender does; the stored retries of a queued item is
\* the number of its leases (1, 2, ..., max_message_retries + 1); a failed
\* send leaves the item queued on its first max_message_retries leases, and
\* on the failure of lease max_message_retries + 1 the item is deleted and,
\* the item having still been queued, its client's push_sub is null.
C3_LeasedAtMostRetriesPlusOne ==
    /\ \A i \in PushIds : hist.leases[i] <= max_message_retries + 1
    /\ \A i \in DOMAIN push_queue : push_queue[i].retries = hist.leases[i]
    /\ (last.op = "push_left_queued" => hist.leases[last.id] <= max_message_retries)
    /\ (last.op = "push_queue_finish" /\ last.unsub_client =>
          /\ hist.leases[last.id] = max_message_retries + 1
          /\ last.id \notin DOMAIN push_queue
          /\ (last.was_queued => IsNull(clients[last.item.client_id].push_sub)))

C3_Witness ==
    /\ last.op = "push_queue_finish"
    /\ last.unsub_client
    /\ last.was_queued
    /\ hist.leases[last.id] = max_message_retries + 1
    /\ last.id \notin DOMAIN push_queue
    /\ IsNull(clients[last.item.client_id].push_sub)

\* C4 as claimed: the retries handed to the dispatcher is the stored count
\* that the lease has just incremented, and a failed send gives up exactly
\* when that incremented count is >= max_message_retries.
C4_HandsIncrementedCount ==
    /\ (last.op = "push_queue_next" /\ ~IsNull(last.ret) =>
          Val(last.ret).retries = push_queue[Val(last.ret).id].retries)
    /\ (last.op = "push_queue_finish" /\ last.unsub_client =>
          hist.leases[last.id] >= max_message_retries)
    /\ (last.op = "push_left_queued" => hist.leases[last.id] < max_message_retries)

\* C4 amended: the retries handed to the dispatcher is the count the SELECT
\* read, one less than the count the lease stored (the attempts made before
\* this one); a failed send gives up exactly when that handed count is
\* >= max_message_retries, that is when the stored count is
\* >= max_message_retries + 1, and leaves the item queued otherwise.
C4_HandsCountBeforeLease ==
    /\ (last.op = "push_queue_next" /\ ~IsNull(last.ret) =>
          /\ Val(last.ret).retries + 1 = push_queue[Val(last.ret).id].retries
          /\ Val(last.ret).retries + 1 = hist.leases[Val(last.ret).id])
    /\ (last.op = "push_queue_finish" /\ last.unsub_client =>
          hist.leases[last.id] - 1 >= max_message_retries)
    /\ (last.op = "push_left_queued" =>
          /\ hist.leases[last.id] - 1 < max_message_retries
          /\ (last.was_queued => last.id \in DOMAIN push_queue))

C4_Witness ==
    /\ last.op = "push_left_queued"
    /\ hist.leases[last.id] = max_message_retries
    /\ last.id \in DOMAIN push_queue

\* C10 as claimed: an item leased while its client's push_sub is null is
\* finished with unsub_client = true on that lease, never left queued.
C10_NullSubFinishedAtOnce ==
    last.op = "push_left_queued" => ~IsNull(last.item.push_info.push_sub)

\* C10 amended: an item leased while its client's push_sub is null is
\* handled as a failed send (notify raises): it is never finished with
\* unsub_client = false; it stays queued for a later retry while the
\* retries handed by the lease is below max_message_retries, and only then
\* push_queue_finish(id, unsub_client = true) removes it.
C10_NullSubIsAFailedSend ==
    (last.op \in {"push_queue_finish", "push_left_queued"}
        /\ IsNull(last.item.push_info.push_sub)) =>
    IF last.item.retries >= max_message_retries
    THEN /\ last.op = "push_queue_finish"
         /\ last.unsub_client
         /\ last.id \notin DOMAIN push_queue
    ELSE /\ last.op = "push_left_queued"
         /\ (last.was_queued => last.id \in DOMAIN push_queue)

C10_Witness ==
    /\ last.op = "push_left_queued"
    /\ IsNull(last.item.push_info.push_sub)
    /\ last.id \in DOMAIN push_queue
    /\ IsNull(clients[last.item.client_id].push_sub)

(***************************************************************************)
(* SpecCrawl: the crawl worker over two queries that client s1 subscribes  *)
(* to, n1 without filters and n2 with the filter "S", against a browser    *)
(* that fails or returns one of a few result lists.                        *)
(***************************************************************************)
SeedCrawl ==
    LET a == insert_ad_query(SeedClient, 0,
                 [nickname |-> "n1", query |-> "q1", filters |-> <<>>], Some("s1")).db
    IN  insert_ad_query(a, 0,
                 [nickname |-> "n2", query |-> "q2", filters |-> << <<"S">> >>],
                 Some("s1")).db

SearchResult(id, start_date, text) == [id |-> id, text |-> text, start_date |-> start_date]

BrowserResults ==
    { << SearchResult("a1", Some(1), Some(<<"S", "a">>)),
         SearchResult("a2", Some(1), Some(<<"b">>)) >>,
      << SearchResult("a2", Null, Some(<<"b">>)) >>,
      << SearchResult("a1", Some(1), Null) >>,
      << >> }

InitCrawl == StartAt(SeedCrawl)

NextCrawl ==
    \/ Tick
    \/ QueryLoopStartup
    \/ QueryLoopNext
    \/ \E browser \in {Null} \cup {Some(b) : b \in BrowserResults} : QueryLoopFetch(browser)
    \/ \E ok \in BOOLEAN : QueryLoopScreenshot(ok)
    \/ QueryLoopSkip
    \/ QueryLoopInsert
    \/ QueryLoopFinished
    \/ QueryLoopCleanup

SpecCrawl == InitCrawl /\ [][NextCrawl]_vars

\* C5: a failure in a crawl pass (browser query, screenshot fetch or
\* insert_ad, a rejected insert included) never ends the crawl worker: the
\* worker records the error on the query and is back at leasing the next
\* due query.
C5_FailureFailsOnlyThePass ==
    /\ ql.pc # "dead"
    /\ (last.op = "insert_ad" => last.exc = "none" \/ ql.pc = "next")
    /\ (last.op = "ad_query_finished_pull" /\ ~IsNull(last.error) =>
          /\ ql.pc = "next"
          /\ ad_queries[last.ad_query_id].last_error = last.error)

\* C6: in a pass for a query with filters, the results kept are exactly
\* those whose lower-cased text contains some lower-cased filter, and the
\* filter step records no error.
IntendedKeep(filters, result) ==
    \E i \in DOMAIN filters : Contains(Lower(Val(result.text)), Lower(filters[i]))

C6_KeepsMatchingResults ==
    (/\ last.op \in {"unseen_ad_ids", "ad_query_finished_pull"}
     /\ last.op = "ad_query_finished_pull" => last.step = "fetch"
     /\ ~IsNull(last.browser)
     /\ Len(last.filters) # 0
     /\ \A i \in DOMAIN Val(last.browser) : ~IsNull(Val(last.browser)[i].text))
    => /\ last.op = "unseen_ad_ids"
       /\ ql.results = SelectSeq(Val(last.browser),
                                 LAMBDA result : IntendedKeep(last.filters, result))

(***************************************************************************)
(* SpecNotify: insert_ad and update_ad_query on query n1, which client s1  *)
(* subscribes to, as the clock advances.  No dispatcher runs: the queued   *)
(* pushes stay in push_queue.                                              *)
(***************************************************************************)
Texts == {<<"S", "a">>, <<"s", "a">>, <<"b">>}
AdIds == {"a1"}

InitNotify == StartAt(SeedQueries)

NextNotify ==
    \/ Tick
    \/ \E id \in AdIds, text \in Texts : InsertAd(1, id, Some(1), Some(text))
    \/ UpdateAdQuery([ad_query_id |-> 1, subscribed |-> TRUE,
                      nickname |-> "n1", query |-> "q1", filters |-> <<>>], "s1")

SpecNotify == InitNotify /\ [][NextNotify]_vars

\* C1 as claimed: an insert_ad call that fans out (sets the query's
\* last_notify) comes more than min_notify_interval after the previous
\* fan-out of the same query, whatever Store operations ran in between.
C1_FanOutsApart ==
    (last.op = "insert_ad" /\ last.notified /\ ~IsNull(last.prev_fanout)) =>
        last.t - Val(last.prev_fanout) > min_notify_interval

\* C1 amended: an insert_ad call that fans out comes more than
\* min_notify_interval after the previous fan-out of the same query unless
\* an update_ad_query of that query committed between the two (it clears
\* last_notify); two novel ads inserted at one instant give one fan-out.
C1_FanOutsApartUnlessUpdated ==
    (last.op = "insert_ad" /\ last.notified /\ ~IsNull(last.prev_fanout)
        /\ ~last.prev_updated) =>
        last.t - Val(last.prev_fanout) > min_notify_interval

C1_Witness ==
    /\ last.op = "insert_ad"
    /\ last.notified
    /\ ~IsNull(last.prev_fanout)
    /\ ~last.prev_updated
    /\ last.t - Val(last.prev_fanout) = min_notify_interval + 1

\* C2: an insert_ad call that returns true, made while the ledger holds a
\* row for the same (ad_query_id, text_hash) with
\* now - last_seen < text_expiration, leaves push_queue as it was and does
\* not change the query's last_notify.
C2_FreshTextAddsNoPush ==
    [][ (/\ last'.op = "insert_ad"
         /\ last'.exc = "none"
         /\ last'.ret = TRUE
         /\ LET key == <<last'.ad_query_id, hash_session_id(Lower(Val(last'.text)))>>
            IN  /\ key \in DOMAIN ad_content_text
                /\ now - ad_content_text[key].last_seen < ad_text_expiration)
        => /\ push_queue' = push_queue
           /\ seq'.push_queue = seq.push_queue
           /\ ad_queries'[last'.ad_query_id].last_notify
                = ad_queries[last'.ad_query_id].last_notify ]_vars

\* The row was written by an earlier call and the query's throttle would
\* have let a fan-out through.
C2_Witness ==
    /\ last.op = "insert_ad"
    /\ last.ret = TRUE
    /\ last.count = 1
    /\ last.should_notify
    /\ last.t > 0
    /\ ~IsNull(last.prev_fanout)
    /\ Val(last.prev_fanout) < last.t

(***************************************************************************)
(* SpecStore: the API's delete_ad_query and toggle_ad_query_subscription,  *)
(* and insert_ad, on a database of two queries with stored ads and queued  *)
(* pushes, client s1 (subscribed to both) and client s2 (subscribed to     *)
(* n2, no push subscription).  None of the three reads the clock to       *)
(* decide what to delete or toggle; the clock stands still.                *)
(***************************************************************************)
SeedStore ==
    LET a == create_session(SeedQueued, 0, <<"pem", "s2">>, "s2").db
    IN  toggle_ad_query_subscription(a, 2, "s2", TRUE).db

InitStore == StartAt(SeedStore)

NextStore ==
    \/ \E id \in 1..(MaxQueries + 1) : DeleteAdQuery(id)
    \/ \E ad_query_id \in 1..(MaxQueries + 1), session_id \in {"s1", "s2", "sx"},
          subscribed \in BOOLEAN :
          ToggleAdQuerySubscription(ad_query_id, session_id, subscribed)
    \/ \E ad_query_id \in 1..MaxQueries : InsertAd(ad_query_id, "a2", Some(1), Some(<<"b">>))

SpecStore == InitStore /\ [][NextStore]_vars

PushesFor(q) == {i \in DOMAIN push_queue : push_queue[i].message.adQueryId = q}

\* C7 as claimed: after delete_ad_query(Q) has returned true no queued push
\* enqueued for an ad of Q remains, and every client is still there.
C7_DeleteDropsQueuedPushes ==
    [][ (last'.op = "delete_ad_query" /\ last'.exc = "none" /\ last'.ret = Some(TRUE)) =>
          /\ \A i \in DOMAIN push_queue' : push_queue'[i].message.adQueryId # last'.id
          /\ clients' = clients ]_vars

\* C7 amended: delete_ad_query(Q) leaves push_queue as it was (its rows
\* reference clients only), so every push queued for an ad of Q is still
\* queued after the call returned true; every client is still there.
C7_DeleteKeepsQueuedPushes ==
    [][ (last'.op = "delete_ad_query" /\ last'.exc = "none" /\ last'.ret = Some(TRUE)) =>
          /\ push_queue' = push_queue
          /\ clients' = clients ]_vars

C7_Witness ==
    /\ last.op = "delete_ad_query"
    /\ last.ret = Some(TRUE)
    /\ last.id \notin DOMAIN ad_queries
    /\ last.had_rows
    /\ PushesFor(last.id) # {}
    /\ \A i \in PushesFor(last.id) : push_queue[i].client_id \in DOMAIN clients

\* C8: after delete_ad_query(id) no ad_content, ad_content_text or
\* client_subs row refers to id; the rows of every other query in these
\* tables and in ad_queries, and all clients rows, are as before.
C8_DeleteCascades ==
    [][ (last'.op = "delete_ad_query" /\ last'.exc = "none") =>
          LET id == last'.id
          IN  /\ id \notin DOMAIN ad_queries'
              /\ \A x \in client_subs' : x[1] # id
              /\ \A k \in DOMAIN ad_content' : k[1] # id
              /\ \A k \in DOMAIN ad_content_text' : k[1] # id
              /\ ad_queries' = Restrict(ad_queries, DOMAIN ad_queries \ {id})
              /\ client_subs' = {x \in client_subs : x[1] # id}
              /\ ad_content' = Restrict(ad_content, {k \in DOMAIN ad_content : k[1] # id})
              /\ ad_content_text' =
                    Restrict(ad_content_text, {k \in DOMAIN ad_content_text : k[1] # id})
              /\ clients' = clients ]_vars

\* A query with subscriptions, ads and ledger rows was deleted while the
\* other query keeps rows of all three kinds.
C8_Witness ==
    /\ last.op = "delete_ad_query"
    /\ last.ret = Some(TRUE)
    /\ last.had_rows
    /\ last.id \notin DOMAIN ad_queries
    /\ \E q \in DOMAIN ad_queries :
          /\ \E x \in client_subs : x[1] = q
          /\ \E k \in DOMAIN ad_content : k[1] = q
          /\ \E k \in DOMAIN ad_content_text : k[1] = q

\* C9: toggle_ad_query_subscription returns false and changes nothing when
\* the session or the ad_query_id is unknown, for subscribed = true and for
\* subscribed = false; when both are known it returns true and the edge
\* (ad_query_id, client) exists afterwards iff subscribed.
C9_ToggleRejectsUnknown ==
    [][ last'.op = "toggle_ad_query_subscription" =>
          LET found == ClientsBySession(DB, last'.session_id)
              edge(c) == <<last'.ad_query_id, c>>
          IN  IF found # {} /\ last'.ad_query_id \in DOMAIN ad_queries
              THEN /\ last'.exc = "none"
                   /\ last'.ret = TRUE
                   /\ \A c \in found : edge(c) \in client_subs' <=> last'.subscribed
              ELSE /\ last'.exc = "none"
                   /\ last'.ret = FALSE
                   /\ tables' = tables ]_vars

(***************************************************************************)
(* SpecQueries: insert_ad_query and update_ad_query as the API issues them *)
(* for client s1, an unknown session sx and an empty session id, with two  *)
(* nicknames to collide on.                                                *)
(***************************************************************************)
Nicknames == {"n1", "n2"}

AdQueryBase(nickname) == [nickname |-> nickname, query |-> "q1", filters |-> <<>>]

AdQueryResult(nickname, ad_query_id, subscribed) ==
    [ad_query_id |-> ad_query_id, subscribed |-> subscribed,
     nickname |-> nickname, query |-> "q1", filters |-> <<>>]

InitQueries == StartAt(SeedClient)

NextQueries ==
    \/ Tick
    \/ \E nickname \in Nicknames, s \in {Null, Some(""), Some("s1"), Some("sx")} :
          InsertAdQuery(AdQueryBase(nickname), s)
    \/ \E nickname \in Nicknames, id \in 1..MaxQueries, subscribed \in BOOLEAN,
          session_id \in {"s1", "sx"} :
          UpdateAdQuery(AdQueryResult(nickname, id, subscribed), session_id)

SpecQueries == InitQueries /\ [][NextQueries]_vars

\* The call writes an ad_queries row whose nickname another row holds: the
\* INSERT of insert_ad_query once the session lookup has passed, the UPDATE
\* of update_ad_query on an existing row.
Collides(op, q, s) ==
    IF op = "insert_ad_query"
    THEN /\ (~IsNull(s) /\ Val(s) # "" => ClientsBySession(DB, Val(s)) # {})
         /\ \E a \in DOMAIN ad_queries : ad_queries[a].nickname = q.nickname
    ELSE /\ op = "update_ad_query"
         /\ q.ad_query_id \in DOMAIN ad_queries
         /\ \E a \in DOMAIN ad_queries \ {q.ad_query_id} :
               ad_queries[a].nickname = q.nickname

C12_CollisionChangesNothing ==
    [][ (last'.op \in {"insert_ad_query", "update_ad_query"}
           /\ Collides(last'.op, last'.q,
                       IF last'.op = "insert_ad_query" THEN last'.sub_session_id ELSE Null))
        => /\ last'.exc # "none"
           /\ tables' = tables ]_vars

\* A colliding update that would have reset next_pull and last_notify and
\* removed the caller's subscription edge, had it gone through.
C12_Witness ==
    /\ last.op = "update_ad_query"
    /\ last.exc # "none"
    /\ ~last.q.subscribed
    /\ last.q.ad_query_id \in DOMAIN ad_queries
    /\ ad_queries[last.q.ad_query_id].nickname # last.q.nickname
    /\ ad_queries[last.q.ad_query_id].next_pull < last.t
    /\ \E c \in ClientsBySession(DB, last.session_id) :
          <<last.q.ad_query_id, c>> \in client_subs

\* C13: insert_ad_query(q, sub_session_id = s) with an s that matches no
\* client returns null and changes nothing; with a matching s (and a free
\* nickname) it adds one ad_queries row with next_pull = now and exactly one
\* client_subs edge, to that client.
C13_UnknownSessionInsertsNothing ==
    [][ (last'.op = "insert_ad_query" /\ ~IsNull(last'.sub_session_id)) =>
          LET found == ClientsBySession(DB, Val(last'.sub_session_id))
              taken == \E a \in DOMAIN ad_queries :
                          ad_queries[a].nickname = last'.q.nickname
          IN  IF found = {}
              THEN /\ last'.exc = "none"
                   /\ IsNull(last'.ret)
                   /\ tables' = tables
              ELSE taken \/
                   /\ last'.exc = "none"
                   /\ ~IsNull(last'.ret)
                   /\ DOMAIN ad_queries' = DOMAIN ad_queries \cup {Val(last'.ret)}
                   /\ Val(last'.ret) \notin DOMAIN ad_queries
                   /\ ad_queries'[Val(last'.ret)].next_pull = now
                   /\ client_subs' \ client_subs
                        = {<<Val(last'.ret), c>> : c \in found}
                   /\ Cardinality(found) = 1 ]_vars

(***************************************************************************)
(* SpecCleanup: insert_ad and cleanup_ads on two queries that nobody       *)
(* subscribes to (no push is queued).  Query n1 receives three ads, one    *)
(* more than max_ad_history, a1 and a3 sharing a start_date; query n2      *)
(* receives one.                                                           *)
(***************************************************************************)
SeedBare ==
    LET a == insert_ad_query(EmptyDB, 0, AdQueryBase("n1"), Null).db
    IN  insert_ad_query(a, 0, AdQueryBase("n2"), Null).db

CleanupAdIds == {"a1", "a2", "a3"}

StartDate(id) == IF id = "a2" THEN 2 ELSE 1

InitCleanup == StartAt(SeedBare)

NextCleanup ==
    \/ Tick
    \/ \E id \in CleanupAdIds : InsertAd(1, id, Some(StartDate(id)), Some(<<"b">>))
    \/ InsertAd(2, "a1", Some(StartDate("a1")), Some(<<"b">>))
    \/ CleanupAds

SpecCleanup == InitCleanup /\ [][NextCleanup]_vars

RowsOf(q) == {k \in DOMAIN ad_content : k[1] = q}

\* C14: when cleanup_ads(max_ads, ...) has returned, every query has at
\* most max_ads ad_content rows.
C14_AtMostMaxAds ==
    last.op = "cleanup_ads" =>
        \A q \in DOMAIN ad_queries : Cardinality(RowsOf(q)) <= max_ad_history

C14_Witness ==
    /\ last.op = "cleanup_ads"
    /\ last.deleted # {}
    /\ \E q \in DOMAIN ad_queries : Cardinality(RowsOf(q)) = max_ad_history

\* C15: for a query with more than max_ads ad_content rows cleanup_ads
\* keeps exactly max_ads of them, unmodified, and no deleted row precedes a
\* kept one in the order (last_seen descending, start_date descending); the
\* rows of a query with at most max_ads rows are all kept.
C15_KeepsMostRecent ==
    [][ last'.op = "cleanup_ads" =>
          \A q \in {k[1] : k \in DOMAIN ad_content} :
             LET before == {k \in DOMAIN ad_content : k[1] = q}
                 after == {k \in DOMAIN ad_content' : k[1] = q}
             IN  /\ after \subseteq before
                 /\ \A k \in after : ad_content'[k] = ad_content[k]
                 /\ IF Cardinality(before) > max_ad_history
                    THEN /\ Cardinality(after) = max_ad_history
                         /\ \A k \in after : \A r \in before \ after :
                               \/ ad_content[k].last_seen > ad_content[r].last_seen
                               \/ /\ ad_content[k].last_seen = ad_content[r].last_seen
                                  /\ ad_content[k].start_date >= ad_content[r].start_date
                    ELSE after = before ]_vars

\* The tiebreak decided: a deleted row and a kept row of the same query with
\* the same last_seen, the kept one with the later start_date.
C15_Witness ==
    /\ last.op = "cleanup_ads"
    /\ \E r \in last.deleted : \E k \in DOMAIN ad_content :
          /\ k[1] = r.key[1]
          /\ ad_content[k].last_seen = r.last_seen
          /\ ad_content[k].start_date > r.start_date

(***************************************************************************)
(* SpecFanOut: insert_ad on query n1 while client s1 (with a push          *)
(* subscription) subscribes and unsubscribes and client s2 (subscribed,    *)
(* at first without a push subscription) registers one.                    *)
(***************************************************************************)
SeedFanOut ==
    LET a == create_session(SeedQueries, 0, <<"pem", "s2">>, "s2").db
    IN  toggle_ad_query_subscription(a, 1, "s2", TRUE).db

InitFanOut == StartAt(SeedFanOut)

NextFanOut ==
    \/ Tick
    \/ InsertAd(1, "a1", Some(1), Some(<<"S", "a">>))
    \/ \E push_sub \in PushSubs : UpdateClientPushSub("s2", push_sub)
    \/ \E subscribed \in BOOLEAN : ToggleAdQuerySubscription(1, "s1", subscribed)

SpecFanOut == InitFanOut /\ [][NextFanOut]_vars

\* C16: an insert_ad call made while the ledger has no fresh row for the
\* text and last_notify is null or older than min_notify_interval adds
\* exactly one push_queue row (retries = 0, retry_time = now) for each
\* client subscribed to the query with a non-null push_sub, none for any
\* other client, changes no row already queued, and sets last_notify = now.
C16_OneItemPerReachableSubscriber ==
    [][ (/\ last'.op = "insert_ad"
         /\ last'.exc = "none"
         /\ last'.ret = TRUE
         /\ LET q == last'.ad_query_id
                key == <<q, hash_session_id(Lower(Val(last'.text)))>>
            IN  /\ ~(/\ key \in DOMAIN ad_content_text
                     /\ now - ad_content_text[key].last_seen < ad_text_expiration)
                /\ \/ IsNull(ad_queries[q].last_notify)
                   \/ now - Val(ad_queries[q].last_notify) > min_notify_interval)
        => LET q == last'.ad_query_id
               targets == {c \in DOMAIN clients :
                             <<q, c>> \in client_subs /\ ~IsNull(clients[c].push_sub)}
               new == DOMAIN push_queue' \ DOMAIN push_queue
           IN  /\ DOMAIN push_queue \subseteq DOMAIN push_queue'
               /\ \A i \in DOMAIN push_queue : push_queue'[i] = push_queue[i]
               /\ \A c \in targets :
                     Cardinality({i \in new : push_queue'[i].client_id = c}) = 1
               /\ \A i \in new : /\ push_queue'[i].client_id \in targets
                                 /\ push_queue'[i].retries = 0
                                 /\ push_queue'[i].retry_time = now
               /\ ad_queries'[q].last_notify = Some(now) ]_vars

\* A fan-out that reached one subscriber and passed over another, whose
\* push_sub is null.
C16_Witness ==
    /\ last.op = "insert_ad"
    /\ last.notified
    /\ ad_queries[last.ad_query_id].last_notify = Some(last.t)
    /\ \E c1, c2 \in DOMAIN clients :
          /\ <<last.ad_query_id, c1>> \in client_subs
          /\ <<last.ad_query_id, c2>> \in client_subs
          /\ IsNull(clients[c2].push_sub)
          /\ \E i \in DOMAIN push_queue :
                /\ push_queue[i].client_id = c1
                /\ push_queue[i].retry_time = last.t
                /\ push_queue[i].retries = 0
                /\ push_queue[i].message.ad.id = last.id
          /\ \A i \in DOMAIN push_queue : push_queue[i].client_id # c2

(***************************************************************************)
(* SpecPushSub: update_client_push_sub as api_update_push_sub calls it,    *)
(* with a JSON text, the JSON literal null or None (an empty push_sub      *)
(* parameter), for clients s1 and s2, each with a queued push, and for an  *)
(* unknown session.                                                        *)
(***************************************************************************)
SeedTwoClients ==
    LET a == create_session(SeedClient, 0, <<"pem", "s2">>, "s2").db
        b == update_client_push_sub(a, 0, "s2", Some("sub")).db
        c == insert_ad_query(b, 0, AdQueryBase("n1"), Some("s1")).db
        d == toggle_ad_query_subscription(c, 1, "s2", TRUE).db
    IN  insert_ad(d, 0, 1, "a1", Some(1), Some(<<"S", "a">>),
                  ad_text_expiration, min_notify_interval).db

InitPushSub == StartAt(SeedTwoClients)

NextPushSub ==
    \/ Tick
    \/ \E session_id \in {"s1", "s2", "sx"},
          push_sub \in PushSubs \cup {Some(JsonNull), Null} :
          UpdateClientPushSub(session_id, push_sub)
    \/ InsertAd(1, "a2", Some(1), Some(<<"b">>))

SpecPushSub == InitPushSub /\ [][NextPushSub]_vars

\* C17: update_client_push_sub(s, null), null being None or the JSON
\* literal: for a known session it returns true and afterwards the client
\* has no push_queue row, push_sub NULL and last_seen = now; for an unknown
\* session it returns false and changes nothing.
C17_NullSubDropsQueuedPushes ==
    [][ (/\ last'.op = "update_client_push_sub"
         /\ (IsNull(last'.push_sub) \/ last'.push_sub = Some(JsonNull)))
        => LET found == ClientsBySession(DB, last'.session_id)
           IN  /\ last'.exc = "none"
               /\ IF found = {}
                  THEN last'.ret = FALSE /\ tables' = tables
                  ELSE /\ last'.ret = TRUE
                       /\ \A i \in DOMAIN push_queue' :
                             push_queue'[i].client_id \notin found
                       /\ \A c \in found : /\ IsNull(clients'[c].push_sub)
                                           /\ clients'[c].last_seen = now ]_vars

\* C18 (SpecPush): push_queue_finish(id, unsub_client = false) for the
\* item that push_queue_next leased deletes that push_queue row and no
\* other, sets last_seen = now on the client that owns it, and changes
\* nothing else (push_sub included); if the row is no longer queued, nothing
\* changes at all.
C18_FinishClearsLeasedRowOnly ==
    [][ (last'.op = "push_queue_finish" /\ ~last'.unsub_client) =>
          LET id == last'.id
          IN  /\ last'.exc = "none"
              /\ IF id \in DOMAIN push_queue
                 THEN /\ push_queue' = Restrict(push_queue, DOMAIN push_queue \ {id})
                      /\ clients' = [clients EXCEPT
                                       ![push_queue[id].client_id].last_seen = now]
                 ELSE /\ push_queue' = push_queue
                      /\ clients' = clients
              /\ UNCHANGED <<ad_queries, client_subs, ad_content, ad_content_text, seq>>
      ]_vars

C18_Witness ==
    /\ last.op = "push_queue_finish"
    /\ ~last.unsub_client
    /\ last.was_queued
    /\ last.t > 0
    /\ last.id \notin DOMAIN push_queue
    /\ clients[last.item.client_id].last_seen = last.t
    /\ ~IsNull(clients[last.item.client_id].push_sub)
    /\ \E j \in DOMAIN push_queue : push_queue[j].client_id = last.item.client_id

\* C20 (SpecPush): push_queue_next(retry_timeout) returns null and changes
\* nothing when no row has retry_time <= now; otherwise it returns a due row
\* of least retry_time with its client's push_sub and vapid_priv, sets that
\* row's retry_time to now + retry_timeout and adds one to its retries, and
\* changes no other row.
C20_LeasesEarliestDueItem ==
    [][ last'.op = "push_queue_next" =>
          LET due == {i \in DOMAIN push_queue : push_queue[i].retry_time <= now}
          IN  /\ last'.exc = "none"
              /\ IF due = {}
                 THEN IsNull(last'.ret) /\ tables' = tables
                 ELSE /\ ~IsNull(last'.ret)
                      /\ LET item == Val(last'.ret)
                             id == item.id
                             c == push_queue[id].client_id
                         IN  /\ id \in due
                             /\ \A j \in due : push_queue[id].retry_time
                                                 <= push_queue[j].retry_time
                             /\ item.client_id = c
                             /\ item.message = push_queue[id].message
                             /\ item.push_info.push_sub = clients[c].push_sub
                             /\ item.push_info.vapid_priv = clients[c].vapid_priv
                             /\ push_queue' =
                                  [push_queue EXCEPT
                                     ![id].retry_time = now + message_retry_interval,
                                     ![id].retries = @ + 1]
                             /\ UNCHANGED <<ad_queries, clients, client_subs, ad_content,
                                            ad_content_text, seq>> ]_vars

\* A never-leased row (retry_time 0) was preferred to a due row that an
\* earlier lease had pushed back.
C20_Witness ==
    /\ last.op = "push_queue_next"
    /\ ~IsNull(last.ret)
    /\ Val(last.ret).retries = 0
    /\ \E j \in DOMAIN push_queue \ {Val(last.ret).id} :
          /\ push_queue[j].retries >= 1
          /\ push_queue[j].retry_time <= last.t

(***************************************************************************)
(* SpecLease: ad_query_next on two queries whose next_pull the clock, the  *)
(* leases and update_ad_query (next_pull = now) drive apart.               *)
(***************************************************************************)
InitLease == StartAt(SeedQueries)

NextLease ==
    \/ Tick
    \/ AdQueryNext
    \/ \E id \in 1..MaxQueries :
          UpdateAdQuery(AdQueryResult(IF id = 1 THEN "n1" ELSE "n2", id, TRUE), "s1")

SpecLease == InitLease /\ [][NextLease]_vars

\* C19: ad_query_next(refresh_interval) returns null and changes nothing
\* when no query has next_pull < now; otherwise it returns a query of least
\* next_pull among those with next_pull < now, sets that query's next_pull
\* to now + refresh_interval and changes nothing else.
C19_LeasesEarliestDueQuery ==
    [][ last'.op = "ad_query_next" =>
          LET due == {a \in DOMAIN ad_queries : ad_queries[a].next_pull < now}
          IN  /\ last'.exc = "none"
              /\ IF due = {}
                 THEN IsNull(last'.ret) /\ tables' = tables
                 ELSE /\ ~IsNull(last'.ret)
                      /\ LET a == Val(last'.ret).ad_query_id
                         IN  /\ a \in due
                             /\ \A b \in due : ad_queries[a].next_pull
                                                 <= ad_queries[b].next_pull
                             /\ Val(last'.ret).nickname = ad_queries[a].nickname
                             /\ Val(last'.ret).query = ad_queries[a].query
                             /\ Val(last'.ret).filters = ad_queries[a].filters
                             /\ ad_queries' = [ad_queries EXCEPT
                                                 ![a].next_pull = now + refresh_interval]
                             /\ UNCHANGED <<clients, client_subs, push_queue, ad_content,
                                            ad_content_text, seq>> ]_vars

\* Two queries were due and the one with the earlier next_pull was leased.
C19_Witness ==
    /\ last.op = "ad_query_next"
    /\ ~IsNull(last.ret)
    /\ ad_queries[Val(last.ret).ad_query_id].next_pull = last.t + refresh_interval
    /\ \E b \in DOMAIN ad_queries \ {Val(last.ret).ad_query_id} :
          /\ Val(last.next_pull) < ad_queries[b].next_pull
          /\ ad_queries[b].next_pull < last.t

(***************************************************************************)
(* SpecIntegrity: delete_ad_query, cleanup_sessions, subscription toggles  *)
(* (for a query id that does not exist too) and insert_ad on the database  *)
(* of SpecStore as the clock advances; client s2 re-registers its push     *)
(* subscription, which renews its last_seen while s1's session expires.    *)
(***************************************************************************)
InitIntegrity == StartAt(SeedStore)

NextIntegrity ==
    \/ Tick
    \/ CleanupSessions
    \/ \E id \in 1..MaxQueries : DeleteAdQuery(id)
    \/ \E ad_query_id \in {2, MaxQueries + 1}, session_id \in {"s1", "s2"},
          subscribed \in BOOLEAN :
          ToggleAdQuerySubscription(ad_query_id, session_id, subscribed)
    \/ \E push_sub \in PushSubs : UpdateClientPushSub("s2", push_sub)
    \/ InsertAd(2, "a2", Some(1), Some(<<"b">>))

SpecIntegrity == InitIntegrity /\ [][NextIntegrity]_vars

\* C21: in every state between transactions every client_subs row refers
\* to an ad_queries row and a clients row, and every push_queue row refers
\* to a clients row; the state that delete_ad_query leaves has no
\* client_subs row of the deleted query, the state that cleanup_sessions
\* leaves has no client_subs or push_queue row of a removed client.
C21_ReferencesExist ==
    /\ \A x \in client_subs : x[1] \in DOMAIN ad_queries /\ x[2] \in DOMAIN clients
    /\ \A i \in DOMAIN push_queue : push_queue[i].client_id \in DOMAIN clients
    /\ (last.op = "delete_ad_query" =>
          /\ last.id \notin DOMAIN ad_queries
          /\ \A x \in client_subs : x[1] # last.id)
    /\ (last.op = "cleanup_sessions" =>
          /\ last.expired \cap DOMAIN clients = {}
          /\ \A x \in client_subs : x[2] \notin last.expired
          /\ \A i \in DOMAIN push_queue : push_queue[i].client_id \notin last.expired)

\* cleanup_sessions removed a client that had subscriptions and queued
\* pushes, and another client with a subscription and a queued push stays.
C21_Witness ==
    /\ last.op = "cleanup_sessions"
    /\ last.had_rows
    /\ \E c \in DOMAIN clients :
          /\ \E x \in client_subs : x[2] = c
          /\ \E i \in DOMAIN push_queue : push_queue[i].client_id = c

(***************************************************************************)
(* SpecUpdate: update_ad_query by client s1 and by an unknown session on   *)
(* queries that insert_ad has notified for and ad_query_next has leased.   *)
(* No client has a push subscription: push_queue stays empty.              *)
(***************************************************************************)
AdQueryEdit(nickname, ad_query_id, subscribed) ==
    [ad_query_id |-> ad_query_id, subscribed |-> subscribed,
     nickname |-> nickname, query |-> "q3", filters |-> << <<"S">> >>]

\* Client s1 with no push subscription, subscribed to n1 and n2: a fan-out
\* sets last_notify and queues nothing.
SeedUpdate ==
    LET a == create_session(EmptyDB, 0, <<"pem", "s1">>, "s1").db
        b == insert_ad_query(a, 0, AdQueryBase("n1"), Some("s1")).db
    IN  insert_ad_query(b, 0, AdQueryBase("n2"), Some("s1")).db

InitUpdate == StartAt(SeedUpdate)

NextUpdate ==
    \/ Tick
    \/ AdQueryNext
    \/ InsertAd(1, "a1", Some(1), Some(<<"S", "a">>))
    \/ \E nickname \in {"n1", "n2", "n3"}, subscribed \in BOOLEAN,
          session_id \in {"s1", "sx"} :
          UpdateAdQuery(AdQueryEdit(nickname, 1, subscribed), session_id)

SpecUpdate == InitUpdate /\ [][NextUpdate]_vars

\* C22: update_ad_query on an existing query, with a nickname no other
\* query holds, replaces that row's nickname, query and filters, sets its
\* next_pull to now and its last_notify to null, changes no other row, and
\* afterwards the client_subs edge between the query and the client of the
\* calling session exists iff q.subscribed; no other edge changes.
C22_UpdateResetsAndSetsEdge ==
    [][ (/\ last'.op = "update_ad_query"
         /\ last'.q.ad_query_id \in DOMAIN ad_queries
         /\ ~\E a \in DOMAIN ad_queries \ {last'.q.ad_query_id} :
                ad_queries[a].nickname = last'.q.nickname)
        => LET q == last'.q
               id == q.ad_query_id
               found == ClientsBySession(DB, last'.session_id)
           IN  /\ last'.exc = "none"
               /\ ad_queries' = [ad_queries EXCEPT
                                   ![id] = [nickname |-> q.nickname, query |-> q.query,
                                            filters |-> q.filters, next_pull |-> now,
                                            last_pull |-> ad_queries[id].last_pull,
                                            last_error |-> ad_queries[id].last_error,
                                            last_notify |-> Null]]
               /\ \A c \in found : <<id, c>> \in client_subs' <=> q.subscribed
               /\ \A x \in (client_subs \cup client_subs') \ {<<id, c>> : c \in found} :
                     x \in client_subs' <=> x \in client_subs
               /\ UNCHANGED <<clients, push_queue, ad_content, ad_content_text, seq>>
      ]_vars

\* An update that renamed a query whose lease had not run out, after a
\* fan-out, and removed the caller's subscription.
C22_Witness ==
    /\ last.op = "update_ad_query"
    /\ last.exc = "none"
    /\ last.t > 0
    /\ last.q.ad_query_id \in DOMAIN ad_queries
    /\ LET id == last.q.ad_query_id
       IN  /\ ad_queries[id].nickname = "n3"
           /\ ad_queries[id].query = "q3"
           /\ ad_queries[id].next_pull = last.t
           /\ IsNull(ad_queries[id].last_notify)
           /\ ~IsNull(hist.fanout[id])
           /\ ~last.q.subscribed
           /\ \E c \in ClientsBySession(DB, last.session_id) : <<id, c>> \notin client_subs

(***************************************************************************)
(* SpecRepull: the crawl worker started on a database that holds one more  *)
(* ad of query n1 than max_ad_history (ad 1, the oldest by start_date, was *)
(* notified to client s1), against a browser that keeps returning ad 1.    *)
(* update_ad_query makes the query due again.  No dispatcher runs: every   *)
(* queued push stays in push_queue with the time of its fan-out.           *)
(***************************************************************************)
AdNo(n) == <<"ad", n>>

TextNo(n) == [j \in 1..n |-> "b"]

RECURSIVE SeedAds(_, _)
SeedAds(d, n) ==
    IF n = 0 THEN d
    ELSE insert_ad(SeedAds(d, n - 1), 0, 1, AdNo(n), Some(IF n = 1 THEN 1 ELSE 2),
                   Some(TextNo(n)), ad_text_expiration, min_notify_interval).db

SeedRepull ==
    SeedAds(insert_ad_query(SeedClient, 0, AdQueryBase("n1"), Some("s1")).db,
            max_ad_history + 1)

InitRepull == StartAt(SeedRepull)

NextRepull ==
    \/ Tick
    \/ QueryLoopStartup
    \/ QueryLoopNext
    \/ \E n \in {1} :
          QueryLoopFetch(Some(<< SearchResult(AdNo(n), Some(1), Some(TextNo(n))) >>))
    \/ QueryLoopScreenshot(TRUE)
    \/ QueryLoopSkip
    \/ QueryLoopInsert
    \/ QueryLoopFinished
    \/ QueryLoopCleanup
    \/ \E id \in {1} : UpdateAdQuery(AdQueryResult("n1", id, TRUE), "s1")

SpecRepull == InitRepull /\ [][NextRepull]_vars

\* C23: for a given query an ad id triggers fan-out at most once: no
\* client is ever queued two pushes for the same ad of the same query, also
\* when cleanup_ads trimmed the ad and a later pull re-inserts it.
C23_FansOutOncePerAd ==
    \A i, j \in DOMAIN push_queue :
        (/\ push_queue[i].client_id = push_queue[j].client_id
         /\ push_queue[i].message.adQueryId = push_queue[j].message.adQueryId
         /\ push_queue[i].message.ad.id = push_queue[j].message.ad.id) => i = j

(***************************************************************************)
(* SpecQueueSub: the push dispatcher, insert_ad and the client's           *)
(* update_client_push_sub (a JSON text or the JSON literal null) on the    *)
(* two queued pushes of client s1.                                         *)
(***************************************************************************)
InitQueueSub == StartAt(SeedQueued)

NextQueueSub ==
    \/ Tick
    \/ PushLoopNext
    \/ \E sender_ok \in BOOLEAN : PushLoopSend(sender_ok)
    \/ \E push_sub \in PushSubs \cup {Some(JsonNull)} :
          UpdateClientPushSub("s1", push_sub)
    \/ InsertAd(1, "a2", Some(1), Some(<<"b">>))

SpecQueueSub == InitQueueSub /\ [][NextQueueSub]_vars

\* C24 as claimed: in every state every push_queue row belongs to a client
\* whose push_sub is not null.
C24_QueuedItemsHaveSub ==
    \A i \in DOMAIN push_queue : ~IsNull(clients[push_queue[i].client_id].push_sub)

\* C24 amended: no row is enqueued for a client whose push_sub is null, and
\* update_client_push_sub with null leaves no row of that client; a
\* push_queue row whose client has a null push_sub is a row that was queued
\* when push_queue_finish(id, unsub_client = true) finished another row of
\* the same client (it deletes row id only), or one left from such a state.
C24_NullSubOnlyByFinishedSibling ==
    [][ \A i \in DOMAIN push_queue' :
          IsNull(clients'[push_queue'[i].client_id].push_sub) =>
             /\ i \in DOMAIN push_queue
             /\ \/ IsNull(clients[push_queue[i].client_id].push_sub)
                \/ /\ last'.op = "push_queue_finish"
                   /\ last'.unsub_client
                   /\ i # last'.id
                   /\ push_queue[i].client_id = last'.item.client_id ]_vars

\* push_queue_finish(id, unsub_client = true) nulled the push_sub of a
\* client that has another row queued.
C24_Witness ==
    /\ last.op = "push_queue_finish"
    /\ last.unsub_client
    /\ last.was_queued
    /\ \E i \in DOMAIN push_queue :
          /\ push_queue[i].client_id = last.item.client_id
          /\ IsNull(clients[push_queue[i].client_id].push_sub)

(***************************************************************************)
(* SpecNovelty: the crawl worker over queries n1 and n2 (no filters, both  *)
(* subscribed by s1) against a browser that returns ad a1 alone or a2      *)
(* followed by a1, and whose screenshot fetch may fail.                    *)
(***************************************************************************)
NoveltyResults ==
    { << SearchResult("a1", Some(1), Some(<<"S", "a">>)) >>,
      << SearchResult("a2", Some(1), Some(<<"b">>)),
         SearchResult("a1", Some(1), Some(<<"S", "a">>)) >> }

InitNovelty == StartAt(SeedQueries)

NextNovelty ==
    \/ Tick
    \/ QueryLoopStartup
    \/ QueryLoopNext
    \/ \E b \in NoveltyResults : QueryLoopFetch(Some(b))
    \/ \E ok \in BOOLEAN : QueryLoopScreenshot(ok)
    \/ QueryLoopSkip
    \/ QueryLoopInsert
    \/ QueryLoopFinished
    \/ QueryLoopCleanup

SpecNovelty == InitNovelty /\ [][NextNovelty]_vars

\* C25: in a crawl pass the novelty set is the ids of the kept results
\* minus the ids stored in ad_content for the leased query when
\* unseen_ad_ids ran; the for loop goes through every kept result, calls
\* insert_ad for the leased query on those whose id is in that set, and
\* passes over the others with no write (no insert, no notification); the
\* pass is closed only when every kept result has been gone through.
C25_InsertsExactlyTheUnseen ==
    [][ /\ (last'.op = "unseen_ad_ids" =>
              ql'.new_ids = {ql'.results[i].id : i \in DOMAIN ql'.results}
                              \ {k[2] : k \in {x \in DOMAIN ad_content :
                                                  x[1] = last'.ad_query_id}})
        /\ (last'.op = "screenshot_ids" => ql'.todo = Reverse(ql.results))
        /\ (last'.op = "insert_ad" =>
              /\ ql.todo # <<>>
              /\ last'.id = Head(ql.todo).id
              /\ last'.id \in ql.new_ids
              /\ last'.ad_query_id = Val(ql.query).ad_query_id
              /\ ql'.todo = Tail(ql.todo))
        /\ (last'.op = "skip" =>
              /\ ql.todo # <<>>
              /\ last'.id = Head(ql.todo).id
              /\ last'.id \notin ql.new_ids
              /\ <<Val(ql.query).ad_query_id, last'.id>> \in DOMAIN ad_content
              /\ ql'.todo = Tail(ql.todo)
              /\ tables' = tables)
        /\ (last'.op = "ad_query_finished_pull" /\ last'.step = "finished" =>
              ql.todo = <<>>) ]_vars

\* A pass whose results held one stored ad, passed over, and one novel ad,
\* inserted.
C25_Witness ==
    /\ last.op = "insert_ad"
    /\ last.ret = TRUE
    /\ ql.pc = "insert"
    /\ ql.todo = <<>>
    /\ Len(ql.results) = 2
    /\ ql.new_ids = {last.id}
    /\ \A i \in DOMAIN ql.results :
          <<last.ad_query_id, ql.results[i].id>> \in DOMAIN ad_content

(***************************************************************************)
(* SpecOrder: the crawl worker on query n1 after ad a1 (text "Sa") was     *)
(* notified and update_ad_query cleared last_notify, all at time 0.  The   *)
(* browser returns two novel ads: a2 and then a3, whose text "sa" is that  *)
(* of a1, or a2 and then a4, with a new text.                              *)
(***************************************************************************)
SeedOrder ==
    LET a == insert_ad_query(SeedClient, 0, AdQueryBase("n1"), Some("s1")).db
        b == insert_ad(a, 0, 1, "a1", Some(1), Some(<<"S", "a">>),
                       ad_text_expiration, min_notify_interval).db
    IN  update_ad_query(b, 0, AdQueryResult("n1", 1, TRUE), "s1").db

OrderResults ==
    { << SearchResult("a2", Some(1), Some(<<"b">>)),
         SearchResult("a3", Some(1), Some(<<"s", "a">>)) >>,
      << SearchResult("a2", Some(1), Some(<<"b">>)),
         SearchResult("a4", Some(1), Some(<<"a">>)) >> }

InitOrder == StartAt(SeedOrder)

NextOrder ==
    \/ Tick
    \/ QueryLoopStartup
    \/ QueryLoopNext
    \/ \E b \in OrderResults : QueryLoopFetch(Some(b))
    \/ QueryLoopScreenshot(TRUE)
    \/ QueryLoopSkip
    \/ QueryLoopInsert
    \/ QueryLoopFinished
    \/ QueryLoopCleanup

SpecOrder == InitOrder /\ [][NextOrder]_vars

\* C26 as claimed: an insert_ad of a pass that fans out while last_notify
\* was null (the throttle open, no fan-out in this pass yet) is the insert
\* of the last-returned novel kept result.
C26_NotifiesLastReturnedNovel ==
    [][ (/\ last'.op = "insert_ad"
         /\ last'.notified
         /\ IsNull(ad_queries[last'.ad_query_id].last_notify))
        => LET novel == SelectSeq(ql.results, LAMBDA r : r.id \in ql.new_ids)
           IN  last'.id = novel[Len(novel)].id ]_vars

\* C26 amended: within a pass the novel kept results are inserted in the
\* reverse of the returned order; an insert fans out iff its text has no
\* fresh ledger row and last_notify is null or older than
\* min_notify_interval, so the notification is for the first inserted
\* novel ad whose text is not fresh (not always the last-returned one); it
\* sets last_notify = now, and an insert that does not fan out adds no
\* push and leaves last_notify as it was.
C26_FirstUnsuppressedNovelNotifies ==
    [][ (last'.op = "insert_ad" /\ last'.exc = "none" /\ last'.ret = TRUE) =>
          LET q == last'.ad_query_id
              key == <<q, hash_session_id(Lower(Val(last'.text)))>>
              fresh == /\ key \in DOMAIN ad_content_text
                       /\ now - ad_content_text[key].last_seen < ad_text_expiration
              open == \/ IsNull(ad_queries[q].last_notify)
                      \/ now - Val(ad_queries[q].last_notify) > min_notify_interval
              n == Len(ql.results) - Len(ql.todo)
          IN  /\ last'.id = ql.results[Len(ql.results) - n].id
              /\ \A i \in 1..Len(ql.todo) : ql.todo[i] = ql.results[Len(ql.todo) + 1 - i]
              /\ last'.notified <=> (~fresh /\ open)
              /\ IF last'.notified
                 THEN /\ ad_queries'[q].last_notify = Some(now)
                      /\ DOMAIN push_queue' # DOMAIN push_queue
                      /\ \A i \in DOMAIN push_queue' \ DOMAIN push_queue :
                            push_queue'[i].message.ad.id = last'.id
                 ELSE /\ push_queue' = push_queue
                      /\ ad_queries'[q].last_notify = ad_queries[q].last_notify ]_vars

\* The notification went to a2 after the later-returned novel a3 had been
\* inserted without one.
C26_Witness ==
    /\ last.op = "insert_ad"
    /\ last.notified
    /\ ql.pc = "insert"
    /\ \E i, j \in DOMAIN ql.results :
          /\ i < j
          /\ ql.results[i].id = last.id
          /\ ql.results[j].id \in ql.new_ids
          /\ <<last.ad_query_id, ql.results[j].id>> \in DOMAIN ad_content
          /\ \A p \in DOMAIN push_queue : push_queue[p].message.ad.id # ql.results[j].id


(***************************************************************************)
(* `transaction` and `_retry`, one awaited statement at a time.  A method  *)
(* body is a sequence of statements against the one connection; between    *)
(* two of them the event loop may run any other task.  A statement step    *)
(* gives the tables after it, the body's locals, the next statement (0     *)
(* once the body has returned or raised), and what it returned or raised.  *)
(***************************************************************************)
MaxAttempts == 2

StmtGo(d, loc, k) == [db |-> d, loc |-> loc, k |-> k, ret |-> Null, exc |-> "none"]

StmtReturn(d, loc, ret) == [db |-> d, loc |-> loc, k |-> 0, ret |-> ret, exc |-> "none"]

StmtRaise(d, loc, e) == [db |-> d, loc |-> loc, k |-> 0, ret |-> Null, exc |-> e]

\* DB.insert_ad: SELECT nickname; INSERT OR REPLACE ad_content; SELECT
\* COUNT(*) of the fresh ledger row; INSERT OR REPLACE ad_content_text;
\* SELECT should_notify; INSERT INTO push_queue; UPDATE last_notify.
insert_ad_stmt(d, now_, c, k, loc) ==
    LET q == c.ad_query_id
        t == Val(c.text)
        text_hash == hash_session_id(Lower(t))
        key == <<q, text_hash>>
    IN  CASE k = 1 ->
               IF q \notin DOMAIN d.ad_queries THEN StmtReturn(d, loc, FALSE)
               ELSE StmtGo(d, [loc EXCEPT !.nickname = d.ad_queries[q].nickname], 2)
          [] k = 2 ->
               IF IsNull(c.text)
               THEN StmtRaise(d, loc,
                      "AttributeError: 'NoneType' object has no attribute 'lower'")
               ELSE IF IsNull(c.start_date)
               THEN StmtRaise(d, loc,
                      "IntegrityError: NOT NULL constraint failed: ad_content.start_date")
               ELSE StmtGo([d EXCEPT !.ad_content =
                              Put(@, <<q, c.id>>,
                                  [start_date |-> Val(c.start_date), last_seen |-> now_,
                                   text_hash |-> text_hash, text |-> t])], loc, 3)
          [] k = 3 ->
               StmtGo(d, [loc EXCEPT !.count =
                            IF key \in DOMAIN d.ad_content_text
                               /\ TextIsFresh(d.ad_content_text[key].last_seen, now_,
                                              ad_text_expiration)
                            THEN 1 ELSE 0], 4)
          [] k = 4 ->
               StmtGo([d EXCEPT !.ad_content_text =
                         Put(@, key, [text |-> t, last_seen |-> now_])], loc, 5)
          [] k = 5 ->
               IF loc.count = 0
                  /\ q \in DOMAIN d.ad_queries
                  /\ ShouldNotify(d.ad_queries[q].last_notify, now_, min_notify_interval)
               THEN StmtGo(d, loc, 6)
               ELSE StmtReturn(d, loc, TRUE)
          [] k = 6 ->
               StmtGo(FanOut(d, now_, NotifyTargets(d, q),
                             [adQueryId |-> q, nickname |-> loc.nickname,
                              ad |-> [id |-> c.id,
                                      text |-> Truncate(t, MAX_NOTIFY_CHARS)]]),
                      loc, 7)
          [] OTHER ->
               StmtReturn(IF q \in DOMAIN d.ad_queries THEN SetLastNotify(d, q, now_)
                          ELSE d, loc, TRUE)

\* DB.push_queue_next: the SELECT ... ORDER BY retry_time and its first
\* row, then the UPDATE of that row.
push_queue_next_stmt(d, now_, c, k, loc, pick) ==
    CASE k = 1 ->
           IF PushDue(d, now_) = {} THEN StmtReturn(d, loc, Null)
           ELSE LET row == d.push_queue[pick]
                IN  StmtGo(d, [loc EXCEPT
                                 !.pick = pick,
                                 !.item = Some(
                                   [id |-> pick,
                                    client_id |-> row.client_id,
                                    push_info |->
                                      [push_sub |-> d.clients[row.client_id].push_sub,
                                       vapid_priv |-> d.clients[row.client_id].vapid_priv],
                                    message |-> row.message,
                                    retries |-> row.retries])], 2)
      [] OTHER ->
           StmtReturn(IF loc.pick \in DOMAIN d.push_queue
                      THEN [d EXCEPT !.push_queue[loc.pick] =
                              [@ EXCEPT !.retry_time = now_ + c.retry_timeout,
                                        !.retries = Val(loc.item).retries + 1]]
                      ELSE d, loc, loc.item)

\* DB.update_ad_query: the UPDATE inside the try, then the three statements
\* of _toggle_ad_query_subscription.
update_ad_query_stmt(d, now_, c, k, loc) ==
    LET q == c.q
        updated_data == q.ad_query_id \in DOMAIN d.ad_queries
        client_id == CHOOSE x \in loc.found : TRUE
    IN  CASE k = 1 ->
               IF updated_data /\ NicknameTaken(d, q.nickname, {q.ad_query_id})
               THEN StmtRaise(d, loc, ExceptUnique(UniqueNickname))
               ELSE StmtGo(IF updated_data
                           THEN [d EXCEPT !.ad_queries[q.ad_query_id] =
                                   [@ EXCEPT !.nickname = q.nickname, !.query = q.query,
                                             !.filters = q.filters, !.next_pull = now_,
                                             !.last_notify = Null]]
                           ELSE d,
                           [loc EXCEPT !.updated_data = updated_data], 2)
          [] k = 2 ->
               IF ClientsBySession(d, c.session_id) = {}
               THEN StmtReturn(d, loc, [updated_data |-> loc.updated_data,
                                        updated_sub |-> FALSE])
               ELSE StmtGo(d, [loc EXCEPT !.found = ClientsBySession(d, c.session_id)], 3)
          [] k = 3 ->
               IF CursorIsTruthy THEN StmtGo(d, loc, 4)
               ELSE StmtReturn(d, loc, [updated_data |-> loc.updated_data,
                                        updated_sub |-> FALSE])
          [] OTHER ->
               IF q.subscribed
               THEN IF q.ad_query_id \notin DOMAIN d.ad_queries
                    THEN StmtRaise(d, loc, "IntegrityError: FOREIGN KEY constraint failed")
                    ELSE StmtReturn([d EXCEPT !.client_subs =
                                       @ \cup {<<q.ad_query_id, client_id>>}], loc,
                                    [updated_data |-> loc.updated_data,
                                     updated_sub |-> TRUE])
               ELSE StmtReturn([d EXCEPT !.client_subs =
                                  @ \ {<<q.ad_query_id, client_id>>}], loc,
                               [updated_data |-> loc.updated_data,
                                updated_sub |-> TRUE])

Stmt(d, now_, c, k, loc, pick) ==
    CASE c.op = "insert_ad" -> insert_ad_stmt(d, now_, c, k, loc)
      [] c.op = "push_queue_next" -> push_queue_next_stmt(d, now_, c, k, loc, pick)
      [] OTHER -> update_ad_query_stmt(d, now_, c, k, loc)

\* The same call as the one uncontended transaction of the methods above.
Uncontended(d, now_, c, pick) ==
    LET r == CASE c.op = "insert_ad" ->
                    insert_ad(d, now_, c.ad_query_id, c.id, c.start_date, c.text,
                              ad_text_expiration, min_notify_interval)
               [] c.op = "push_queue_next" ->
                    push_queue_next(d, now_, c.retry_timeout, pick)
               [] OTHER -> update_ad_query(d, now_, c.q, c.session_id)
    IN  [db |-> r.db, ret |-> r.ret, exc |-> r.exc]

\* The uncontended execution of the call that the commit record l reports.
UncontendedOf(l) == Uncontended(l.begin, l.t, l.call, l.pick)

\* asyncio.Lock.acquire() returns at once only when the lock is not held
\* and nobody waits for it; otherwise the caller queues behind the waiters.
LockFreeAlways(x) == TRUE

LockFree(x) == IsNull(x.lock) /\ x.waiters = <<>>

\* Leaving `async with db._lock`: the oldest waiter, if any, is woken and
\* holds the lock next.
Release(x, t) ==
    LET y == [x EXCEPT !.begin = Null, !.pc[t] = "idle", !.k[t] = 0,
                       !.loc[t] = LocInit, !.ret[t] = Null, !.exc[t] = "none",
                       !.attempts[t] = 0, !.call[t] = [op |-> "none"]]
    IN  IF x.waiters = <<>> THEN [y EXCEPT !.lock = Null]
        ELSE [y EXCEPT !.lock = Some(Head(x.waiters)), !.waiters = Tail(x.waiters),
                       !.pc[Head(x.waiters)] = "begin"]

\* Task t calls the decorated method c and reaches `async with db._lock`.
TxCall(t, c) ==
    /\ tx.pc[t] = "idle"
    /\ tx' = IF LockFree(tx)
             THEN [tx EXCEPT !.lock = Some(t), !.pc[t] = "begin", !.call[t] = c]
             ELSE [tx EXCEPT !.waiters = Append(@, t), !.pc[t] = "wait", !.call[t] = c]
    /\ last' = [op |-> "tx_call", task |-> t]
    /\ UNCHANGED <<now, tables, pq_item, ql, hist>>

\* BEGIN TRANSACTION.
TxBegin(t) ==
    /\ tx.pc[t] = "begin"
    /\ tx' = [tx EXCEPT !.begin = Some(DB), !.begin_time = now, !.pc[t] = "body",
                        !.k[t] = 1, !.loc[t] = LocInit, !.attempts[t] = 1]
    /\ last' = [op |-> "tx_begin", task |-> t]
    /\ UNCHANGED <<now, tables, pq_item, ql, hist>>

\* The next statement of the body runs; a body that returned goes on to
\* COMMIT, one that raised to the except clause.
TxStmt(t) ==
    /\ tx.pc[t] = "body"
    /\ \E pick \in IF tx.call[t].op = "push_queue_next" /\ tx.k[t] = 1
                      /\ PushDue(DB, now) # {}
                   THEN PushFirst(DB, now) ELSE {0} :
         LET r == Stmt(DB, now, tx.call[t], tx.k[t], tx.loc[t], pick)
         IN  /\ r.db.seq.push_queue <= MaxPushItems
             /\ Commit(r.db)
             /\ tx' = [tx EXCEPT !.k[t] = r.k, !.loc[t] = r.loc,
                                 !.ret[t] = IF r.k = 0 /\ r.exc = "none"
                                            THEN Some(r.ret) ELSE Null,
                                 !.exc[t] = r.exc,
                                 !.pc[t] = IF r.k # 0 THEN "body"
                                           ELSE IF r.exc = "none" THEN "commit"
                                           ELSE "rollback"]
             /\ last' = [op |-> "tx_stmt", task |-> t, k |-> tx.k[t]]
    /\ UNCHANGED <<now, pq_item, ql, hist>>

\* A statement raises OperationalError("database is locked") and writes
\* nothing: _retry sleeps and calls its argument again.  For the body that
\* argument is the whole method, which starts over at its first statement
\* inside the transaction that is still open; for BEGIN, COMMIT and ROLLBACK
\* it is that one statement.
TxLocked(t) ==
    /\ tx.pc[t] \in {"begin", "body", "commit", "rollback"}
    /\ tx.attempts[t] < MaxAttempts
    /\ tx' = IF tx.pc[t] = "body"
             THEN [tx EXCEPT !.k[t] = 1, !.loc[t] = LocInit, !.attempts[t] = @ + 1]
             ELSE [tx EXCEPT !.attempts[t] = @ + 1]
    /\ last' = [op |-> "tx_locked", task |-> t, pc |-> tx.pc[t], k |-> tx.k[t]]
    /\ UNCHANGED <<now, tables, pq_item, ql, hist>>

\* COMMIT, the lock is released and the caller gets the result.
TxCommit(t) ==
    /\ tx.pc[t] = "commit"
    /\ tx' = Release(tx, t)
    /\ last' = [op |-> "tx_commit", task |-> t, call |-> tx.call[t],
                ret |-> Val(tx.ret[t]), exc |-> "none", begin |-> Val(tx.begin),
                begin_time |-> tx.begin_time, pick |-> tx.loc[t].pick,
                attempts |-> tx.attempts[t], t |-> now]
    /\ UNCHANGED <<now, tables, pq_item, ql, hist>>

\* except: ROLLBACK, the lock is released and the exception goes on to the
\* caller.
TxRollback(t) ==
    /\ tx.pc[t] = "rollback"
    /\ Commit(Val(tx.begin))
    /\ tx' = Release(tx, t)
    /\ last' = [op |-> "tx_rollback", task |-> t, call |-> tx.call[t],
                ret |-> Null, exc |-> tx.exc[t], begin |-> Val(tx.begin),
                begin_time |-> tx.begin_time, attempts |-> tx.attempts[t], t |-> now]
    /\ UNCHANGED <<now, pq_item, ql, hist>>

(***************************************************************************)
(* SpecTxn: the three callers against one connection.  The crawl worker    *)
(* stores an ad, the dispatcher leases a push, the API handler renames     *)
(* query 1 (to a free nickname or to the one query 2 has) and stays        *)
(* subscribed to it.                                                       *)
(***************************************************************************)
TaskCalls(t) ==
    CASE t = "crawl" ->
           {[ad_query_id |-> 1, id |-> "a2", text |-> Some(<<"b">>),
             start_date |-> Some(1), op |-> "insert_ad"]}
      [] t = "push" ->
           {[retry_timeout |-> message_retry_interval, op |-> "push_queue_next"]}
      [] OTHER ->
           {[session_id |-> "s1", q |-> AdQueryResult(n, 1, TRUE),
             op |-> "update_ad_query"] : n \in {"n2", "n3"}}

InitTxn == StartAt(SeedQueued)

NextTxn ==
    \/ \E t \in Tasks : \E c \in TaskCalls(t) : TxCall(t, c)
    \/ \E t \in Tasks : TxBegin(t)
    \/ \E t \in Tasks : TxStmt(t)
    \/ \E t \in Tasks : TxLocked(t)
    \/ \E t \in Tasks : TxCommit(t)
    \/ \E t \in Tasks : TxRollback(t)

SpecTxn == InitTxn /\ [][NextTxn]_vars

InTransaction(x) == {t \in Tasks : x.pc[t] \in {"begin", "body", "commit", "rollback"}}

\* C27 (SpecTxn): at most one transaction is open at any time and it
\* belongs to the holder of DB._lock; the tables change only by a statement
\* or the ROLLBACK of that holder, so each operation starts from exactly
\* what the previous one left; the lock goes to callers in the order in
\* which they asked for it; and an operation that raises leaves the tables
\* as they were when it began.
C27_OneTransactionInLockOrder ==
    [][ /\ Cardinality(InTransaction(tx')) <= 1
        /\ \A t \in InTransaction(tx') : tx'.lock = Some(t)
        /\ (tables' # tables =>
              /\ last'.op \in {"tx_stmt", "tx_rollback"}
              /\ tx.lock = Some(last'.task)
              /\ InTransaction(tx) = {last'.task})
        /\ (tx'.lock # tx.lock /\ ~IsNull(tx'.lock) =>
              IF tx.waiters # <<>>
              THEN /\ tx'.lock = Some(Head(tx.waiters))
                   /\ tx'.waiters = Tail(tx.waiters)
              ELSE IsNull(tx.lock) /\ last'.op = "tx_call")
        /\ (last'.op = "tx_call" /\ ~IsNull(tx.lock) =>
              /\ tx'.lock = tx.lock
              /\ tx'.waiters = Append(tx.waiters, last'.task))
        /\ (last'.op = "tx_rollback" => DB' = last'.begin)
      ]_vars

\* A caller waited behind the open transaction of another, which raised and
\* was rolled back; the lock has passed to the waiting caller.
C27_Witness ==
    /\ last.op = "tx_rollback"
    /\ last.exc # "none"
    /\ ~IsNull(tx.lock)
    /\ tx.lock # Some(last.task)
    /\ tx.pc[Val(tx.lock)] = "begin"
    /\ DB = last.begin

\* C28 (SpecTxn): a statement that hits "database is locked" is retried
\* until the operation succeeds, and what is then committed and returned is
\* what one execution of the operation without contention commits and
\* returns: no write of a failed attempt is left behind.
C28_RetryEqualsOneExecution ==
    [][ last'.op = "tx_commit" /\ last'.begin_time = last'.t =>
          /\ UncontendedOf(last').exc = "none"
          /\ DB' = UncontendedOf(last').db
          /\ last'.ret = UncontendedOf(last').ret
      ]_vars


(***************************************************************************)
(* SpecLeaseTime: leases of two queries by a worker that may or may not    *)
(* close its passes, with update_ad_query in between.                      *)
(***************************************************************************)
\* DB.ad_query_finished_pull called on its own, whenever a pass ends.
AdQueryFinishedPull(ad_query_id, error) ==
    LET r == ad_query_finished_pull(DB, now, ad_query_id, error)
    IN  /\ Commit(r.db)
        /\ last' = [op |-> "ad_query_finished_pull", ad_query_id |-> ad_query_id,
                    error |-> error, t |-> now, ret |-> r.ret, exc |-> r.exc]
        /\ UNCHANGED <<now, workers, hist>>

InitLeaseTime == StartAt(SeedQueries)

NextLeaseTime ==
    \/ Tick
    \/ AdQueryNext
    \/ \E id \in 1..MaxQueries : AdQueryFinishedPull(id, Null)
    \/ \E id \in 1..MaxQueries :
          UpdateAdQuery(AdQueryResult(IF id = 1 THEN "n1" ELSE "n2", id, TRUE), "s1")

SpecLeaseTime == InitLeaseTime /\ [][NextLeaseTime]_vars

\* C29 (SpecLeaseTime): once ad_query_next has leased query q at time t,
\* and as long as update_ad_query has not committed on q since, q's
\* next_pull is t + refresh_interval, no ad_query_next returns q at a time
\* up to t + refresh_interval, and q is due at every later time, whether or
\* not the pass was ever closed by ad_query_finished_pull.
C29_LeaseHoldsForRefreshInterval ==
    [][ /\ (last'.op = "ad_query_next" /\ ~IsNull(last'.ret)
              /\ ~IsNull(hist.leased[Val(last'.ret).ad_query_id]) =>
                now > Val(hist.leased[Val(last'.ret).ad_query_id]) + refresh_interval)
        /\ \A q \in DOMAIN ad_queries' :
             ~IsNull(hist'.leased[q]) =>
                /\ ad_queries'[q].next_pull = Val(hist'.leased[q]) + refresh_interval
                /\ (q \in AdQueryDue(DB', now')
                      <=> now' > Val(hist'.leased[q]) + refresh_interval)
      ]_vars

\* A query leased at t whose pass was never closed is leased again at
\* t + refresh_interval + 1, the first time it is due.
C29_Witness ==
    /\ last.op = "ad_query_next"
    /\ ~IsNull(last.ret)
    /\ ~IsNull(last.prev_lease)
    /\ last.t = Val(last.prev_lease) + refresh_interval + 1
    /\ IsNull(ad_queries[Val(last.ret).ad_query_id].last_pull)
    /\ hist.leased[Val(last.ret).ad_query_id] = Some(last.t)


(***************************************************************************)
(* SpecDelete: the crawl worker's passes over two queries while the API    *)
(* deletes queries at any point of a pass.  One batch holds a result whose *)
(* start_date is missing.                                                  *)
(***************************************************************************)
DeleteResults ==
    { << SearchResult("a1", Some(1), Some(<<"S", "a">>)),
         SearchResult("a2", Some(1), Some(<<"b">>)) >>,
      << SearchResult("a3", Null, Some(<<"b">>)),
         SearchResult("a1", Some(1), Some(<<"S", "a">>)) >> }

InitDelete == StartAt(SeedQueries)

NextDelete ==
    \/ Tick
    \/ QueryLoopStartup
    \/ QueryLoopNext
    \/ \E b \in DeleteResults : QueryLoopFetch(Some(b))
    \/ \E ok \in BOOLEAN : QueryLoopScreenshot(ok)
    \/ QueryLoopSkip
    \/ QueryLoopInsert
    \/ QueryLoopFinished
    \/ QueryLoopCleanup
    \/ \E id \in 1..MaxQueries : DeleteAdQuery(id)

SpecDelete == InitDelete /\ [][NextDelete]_vars

\* The query of the pass in flight no longer exists.
PassOfDeletedQuery ==
    /\ ql.pc \in {"fetch", "screenshot", "insert"}
    /\ Val(ql.query).ad_query_id \notin DOMAIN ad_queries

\* C30 (SpecDelete): once the query of the pass in flight has been deleted,
\* every insert_ad of the pass returns false without raising and leaves all
\* tables as they are, the ad_query_finished_pull that closes the pass
\* leaves all tables as they are, and the worker goes on: to the next
\* result, to the end of the pass, and from there to its next
\* ad_query_next.
C30_DeletedQueryPassWritesNothing ==
    [][ /\ (PassOfDeletedQuery /\ last'.op = "insert_ad" =>
              /\ last'.ad_query_id = Val(ql.query).ad_query_id
              /\ last'.exc = "none"
              /\ last'.ret = FALSE
              /\ tables' = tables
              /\ ql' = [ql EXCEPT !.todo = Tail(@)])
        /\ (PassOfDeletedQuery /\ last'.op = "ad_query_finished_pull" =>
              /\ last'.ad_query_id = Val(ql.query).ad_query_id
              /\ last'.exc = "none"
              /\ tables' = tables
              /\ ql'.pc \in {"cleanup", "next"})
        /\ (PassOfDeletedQuery => ql'.pc # "dead")
        /\ (ql.pc = "cleanup" /\ ql' # ql => ql' = QlIdle)
      ]_vars

\* The query was deleted with two novel results still to insert: the first
\* insert_ad has returned false and the second is next.
C30_Witness ==
    /\ last.op = "insert_ad"
    /\ last.exc = "none"
    /\ last.ret = FALSE
    /\ last.ad_query_id \notin DOMAIN ad_queries
    /\ ql.pc = "insert"
    /\ ql.todo # <<>>
    /\ Head(ql.todo).id \in ql.new_ids
    /\ \A k \in DOMAIN ad_content : k[1] # last.ad_query_id


(***************************************************************************)
(* SpecLedger: three ads of one query whose texts change between pulls,    *)
(* with cleanup_ads and the deletion of the query in between.              *)
(***************************************************************************)
LedgerTexts == {<<"S", "a">>, <<"b">>}

InitLedger == StartAt(SeedBare)

NextLedger ==
    \/ Tick
    \/ \E id \in CleanupAdIds, text \in LedgerTexts : InsertAd(1, id, Some(1), Some(text))
    \/ CleanupAds
    \/ \E id \in {1} : DeleteAdQuery(id)

SpecLedger == InitLedger /\ [][NextLedger]_vars

LedgerKey(d, k) == <<k[1], d.ad_content[k].text_hash>>

\* C31 (SpecLedger): after every step each ad_content row has the
\* ad_content_text row of its (ad_query_id, text_hash); a ledger row that
\* cleanup_ads deletes had last_seen < now - text_expiration and is the key
\* of no ad_content row left by that call, and cleanup_ads changes no other
\* ledger row; an insert_ad that returns true leaves the ledger row of its
\* text with last_seen = now; no step but cleanup_ads and delete_ad_query
\* removes a ledger row.
C31_LedgerCoversAdContent ==
    [][ /\ \A k \in DOMAIN ad_content' : LedgerKey(DB', k) \in DOMAIN ad_content_text'
        /\ (last'.op = "cleanup_ads" =>
              /\ \A k \in DOMAIN ad_content_text \ DOMAIN ad_content_text' :
                    /\ ad_content_text[k].last_seen < now - ad_text_expiration
                    /\ \A a \in DOMAIN ad_content' : LedgerKey(DB', a) # k
              /\ \A k \in DOMAIN ad_content_text' :
                    /\ k \in DOMAIN ad_content_text
                    /\ ad_content_text'[k] = ad_content_text[k])
        /\ (last'.op = "insert_ad" /\ last'.exc = "none" =>
              /\ last'.ret = (last'.ad_query_id \in DOMAIN ad_queries)
              /\ last'.ret =>
                   LET key == <<last'.ad_query_id,
                                hash_session_id(Lower(Val(last'.text)))>>
                   IN  /\ key \in DOMAIN ad_content_text'
                       /\ ad_content_text'[key].last_seen = now)
        /\ (last'.op \notin {"cleanup_ads", "delete_ad_query"} =>
              DOMAIN ad_content_text \subseteq DOMAIN ad_content_text')
      ]_vars

\* cleanup_ads has deleted an old ledger row that no ad refers to and kept
\* one just as old that an ad still refers to.
C31_Witness ==
    /\ last.op = "cleanup_ads"
    /\ last.expired # {}
    /\ \E k \in DOMAIN ad_content_text :
          /\ ad_content_text[k].last_seen < last.t - ad_text_expiration
          /\ \E a \in DOMAIN ad_content : LedgerKey(DB, a) = k


(***************************************************************************)
(* SpecDispatch: the push dispatcher working off two queued pushes of one  *)
(* client under fair scheduling.  asyncio runs a ready task, so a         *)
(* dispatcher that keeps running takes its next step (weak fairness of     *)
(* the push_queue_next call and of the end of the send), and the clock     *)
(* advances.  The clock is bounded without cutting a wait short: past      *)
(* MaxTime it advances only while some queued item is not yet due, and an  *)
(* item stops being due only by being leased, for message_retry_interval   *)
(* seconds each of its at most max_message_retries + 1 times.              *)
(***************************************************************************)
DispatchHorizon ==
    MaxTime + Cardinality(DOMAIN SeedQueued.push_queue)
                * (max_message_retries + 1) * message_retry_interval

PushWaiting == {i \in DOMAIN push_queue : push_queue[i].retry_time > now}

TickDispatch ==
    /\ now < DispatchHorizon
    /\ now < MaxTime \/ PushWaiting # {}
    /\ now' = now + 1
    /\ last' = [op |-> "tick"]
    /\ UNCHANGED <<tables, workers, hist>>

InitDispatch == StartAt(SeedQueued)

NextDispatch ==
    \/ TickDispatch
    \/ PushLoopNext
    \/ \E sender_ok \in BOOLEAN : PushLoopSend(sender_ok)
    \/ \E session_id \in {"s1"} : UpdateClientPushSub(session_id, Some(JsonNull))

FairDispatch ==
    /\ WF_vars(TickDispatch)
    /\ WF_vars(PushLoopNext)
    /\ WF_vars(\E sender_ok \in BOOLEAN : PushLoopSend(sender_ok))

SpecDispatch == InitDispatch /\ [][NextDispatch]_vars /\ FairDispatch

\* C32: with the dispatcher running and the clock advancing, every
\* push_queue row is eventually gone from the queue, whatever the sender
\* does and whether or not the client re-registers or drops its push
\* subscription; and the clock never has to pass DispatchHorizon for it.
C32_EveryItemEventuallyRemoved ==
    /\ \A i \in PushIds : (i \in DOMAIN push_queue) ~> (i \notin DOMAIN push_queue)
    /\ [](now = DispatchHorizon => PushWaiting = {})

\* Both seeded items are gone, the last by retry exhaustion after
\* max_message_retries + 1 failed sends.
C32_Witness ==
    /\ last.op = "push_queue_finish"
    /\ last.unsub_client
    /\ last.was_queued
    /\ hist.leases[last.id] = max_message_retries + 1
    /\ push_queue = << >>
    /\ \A i \in {1, 2} : hist.leases[i] >= 1

(***************************************************************************)
(* SpecSchedule: the crawl worker's passes over two queries under fair     *)
(* scheduling, while the API edits one query and deletes the other.  The   *)
(* browser fails or returns no result, so no pass reaches insert_ad and    *)
(* the worker keeps running.  The store compares a timestamp only with     *)
(* the clock and with another timestamp, so past MaxTime the clock is      *)
(* kept relative: a second passes by every stored timestamp moving one     *)
(* second into the past (TickShift).  A next_pull that is MaxTime or more  *)
(* seconds old keeps its order and its equality with the other next_pull   *)
(* values that old, which is all that WHERE next_pull < now ORDER BY       *)
(* next_pull reads of it (OldRank); last_pull and last_notify, which the   *)
(* scheduler does not read, are kept as 0, some time in the past.          *)
(***************************************************************************)
ShiftTime(t) == IF t > 0 THEN t - 1 ELSE 0

ShiftOpt(v) == IF IsNull(v) THEN Null ELSE Some(ShiftTime(Val(v)))

PastOpt(v) == IF IsNull(v) THEN Null ELSE Some(0)

OldRank(v, S) == IF v > 0 THEN v ELSE 0 - Cardinality({w \in S : w <= 0 /\ w > v})

TickShift ==
    /\ now = MaxTime
    /\ push_queue = << >> /\ ad_content = << >> /\ ad_content_text = << >>
    /\ LET S == {ad_queries[a].next_pull - 1 : a \in DOMAIN ad_queries}
       IN  ad_queries' = [a \in DOMAIN ad_queries |->
                            [ad_queries[a] EXCEPT !.next_pull = OldRank(@ - 1, S),
                                                  !.last_pull = PastOpt(@),
                                                  !.last_notify = PastOpt(@)]]
    /\ clients' = [c \in DOMAIN clients |->
                     [clients[c] EXCEPT !.last_seen = ShiftTime(@)]]
    /\ hist' = [hist EXCEPT !.leased = [q \in QueryIds |-> ShiftOpt(@[q])],
                            !.fanout = [q \in QueryIds |-> ShiftOpt(@[q])]]
    /\ last' = [op |-> "tick"]
    /\ UNCHANGED <<now, client_subs, push_queue, ad_content, ad_content_text, seq,
                   workers>>

InitSchedule == StartAt(SeedQueries)

NextSchedule ==
    \/ Tick
    \/ TickShift
    \/ QueryLoopStartup
    \/ QueryLoopNext
    \/ \E browser \in {Null, Some(<< >>)} : QueryLoopFetch(browser)
    \/ \E ok \in BOOLEAN : QueryLoopScreenshot(ok)
    \/ QueryLoopFinished
    \/ QueryLoopCleanup
    \/ \E id \in {1} : UpdateAdQuery(AdQueryResult("n1", id, TRUE), "s1")
    \/ \E id \in {2} : DeleteAdQuery(id)

FairSchedule ==
    /\ WF_vars(Tick \/ TickShift)
    /\ WF_vars(QueryLoopStartup)
    /\ WF_vars(QueryLoopNext)
    /\ WF_vars(\E browser \in {Null, Some(<< >>)} : QueryLoopFetch(browser))
    /\ WF_vars(\E ok \in BOOLEAN : QueryLoopScreenshot(ok))
    /\ WF_vars(QueryLoopFinished)
    /\ WF_vars(QueryLoopCleanup)

SpecSchedule == InitSchedule /\ [][NextSchedule]_vars /\ FairSchedule

LeasedNow(q) ==
    last.op = "ad_query_next" /\ ~IsNull(last.ret) /\ Val(last.ret).ad_query_id = q

UpdatedNow(q) ==
    last.op = "update_ad_query" /\ last.exc = "none" /\ last.q.ad_query_id = q

\* C33 as claimed: with the crawl worker running and the clock advancing,
\* every query that stays in the store is leased again and again.
C33_EveryQueryLeasedAgain ==
    \A q \in QueryIds : []<>(q \notin DOMAIN ad_queries) \/ []<>LeasedNow(q)

\* C33 amended: with the crawl worker running and the clock advancing,
\* every query that stays in the store and that update_ad_query stops
\* editing is leased again and again; and each lease moves the leased
\* query's next_pull behind that of every query due at that moment.
C33_UneditedQueryLeasedAgain ==
    /\ \A q \in QueryIds :
          \/ []<>(q \notin DOMAIN ad_queries)
          \/ []<>UpdatedNow(q)
          \/ []<>LeasedNow(q)
    /\ [][ (last'.op = "ad_query_next" /\ ~IsNull(last'.ret)) =>
             \A b \in AdQueryDue(DB, now) :
                ad_queries'[Val(last'.ret).ad_query_id].next_pull
                   > ad_queries[b].next_pull ]_vars

\* Past MaxTime (the other query's latest lease is MaxTime or more
\* seconds old, and no lease is made at time 0), a query is leased while
\* the other one is due too.
C33_Witness ==
    /\ last.op = "ad_query_next"
    /\ ~IsNull(last.ret)
    /\ now = MaxTime
    /\ \E b \in DOMAIN ad_queries :
          /\ b # Val(last.ret).ad_query_id
          /\ hist.leased[b] = Some(0)
          /\ ad_queries[b].next_pull < now

(***************************************************************************)
(* SpecRetry: the push dispatcher working off two queued pushes of one     *)
(* client while the crawl worker inserts a new ad, which queues a third    *)
(* push, and the client may drop its push subscription.  The clock may     *)
(* advance while a send is in flight.                                      *)
(***************************************************************************)
InitRetry == StartAt(SeedQueued)

NextRetry ==
    \/ Tick
    \/ PushLoopNext
    \/ \E sender_ok \in BOOLEAN : PushLoopSend(sender_ok)
    \/ \E id \in {"a2"} : InsertAd(1, id, Some(1), Some(<<"b">>))
    \/ \E session_id \in {"s1"} : UpdateClientPushSub(session_id, Some(JsonNull))

SpecRetry == InitRetry /\ [][NextRetry]_vars

\* C34 as claimed: when a send has failed and the item stays queued, its
\* retry_time is later than that of every other item due at that moment.
C34_FailedItemBehindAllDue ==
    (last.op = "push_left_queued" /\ last.id \in DOMAIN push_queue) =>
       \A j \in PushDue(DB, now) \ {last.id} :
          push_queue[last.id].retry_time > push_queue[j].retry_time

\* C34 amended: the lease, not the failure, puts the item behind: when
\* push_queue_next leases an item its new retry_time is later than that of
\* every other item due at the moment of the lease; a queued item's
\* retry_time changes only by its own lease (a failed send leaves it); and
\* at every lease no queued item has an earlier retry_time than the leased
\* one had, so the items that were due at an item's lease are all leased or
\* removed before that item is leased again.
C34_LeasedItemBehindAllDueAtLease ==
    [][ /\ (last'.op = "push_queue_next" /\ ~IsNull(last'.ret)) =>
             LET id == Val(last'.ret).id
             IN  /\ id \in DOMAIN push_queue'
                 /\ \A j \in PushDue(DB, now) \ {id} :
                       push_queue'[id].retry_time > push_queue[j].retry_time
                 /\ \A j \in DOMAIN push_queue :
                       push_queue[j].retry_time >= push_queue[id].retry_time
        /\ \A j \in DOMAIN push_queue \cap DOMAIN push_queue' :
              push_queue'[j].retry_time # push_queue[j].retry_time =>
                 /\ last'.op = "push_queue_next"
                 /\ last'.ret # Null
                 /\ Val(last'.ret).id = j
      ]_vars

\* An item whose send failed is leased again after the item that was due
\* at its first lease has been leased, while a push queued during a send is
\* waiting.
C34_Witness ==
    /\ last.op = "push_queue_next"
    /\ ~IsNull(last.ret)
    /\ Val(last.ret).retries >= 1
    /\ \E j \in DOMAIN push_queue \ {Val(last.ret).id} :
          /\ j \in {1, 2}
          /\ hist.leases[j] >= 1
    /\ 3 \in DOMAIN push_queue

(***************************************************************************)
(* SpecFinish: the push dispatcher and, while a send is in flight, the     *)
(* client dropping and registering its push subscription, the session      *)
(* cleanup, and insert_ad queueing new pushes.                             *)
(***************************************************************************)
InitFinish == StartAt(SeedQueued)

NextFinish ==
    \/ Tick
    \/ PushLoopNext
    \/ \E sender_ok \in BOOLEAN : PushLoopSend(sender_ok)
    \/ \E session_id \in {"s1"}, push_sub \in PushSubs \cup {Some(JsonNull)} :
          UpdateClientPushSub(session_id, push_sub)
    \/ CleanupSessions
    \/ \E id \in {"a2"} : InsertAd(1, id, Some(1), Some(<<"b">>))

SpecFinish == InitFinish /\ [][NextFinish]_vars

\* The item that the dispatcher holds is no longer in the queue.
RemovedInFlight == ~IsNull(pq_item) /\ Val(pq_item).id \notin DOMAIN push_queue

\* C35: when the leased item was removed from the queue while its send was
\* in flight, push_queue_finish(id, unsub_client), with unsub_client true
\* or false, changes no table at all; a removed id never comes back while
\* the dispatcher holds it, and every queue id is at most the AUTOINCREMENT
\* counter, which never decreases.
C35_FinishOfRemovedItemChangesNothing ==
    [][ /\ (last'.op = "push_queue_finish" /\ RemovedInFlight) =>
             /\ last'.id = Val(pq_item).id
             /\ last'.exc = "none"
             /\ tables' = tables
        /\ (RemovedInFlight /\ ~IsNull(pq_item')) => RemovedInFlight'
        /\ seq'.push_queue >= seq.push_queue
        /\ \A i \in DOMAIN push_queue' : i <= seq'.push_queue
      ]_vars

\* push_queue_finish(id, unsub_client = true) ran for an item that was
\* removed during its send, while a push queued after the removal is
\* waiting and its client has a push subscription.
C35_Witness ==
    /\ last.op = "push_queue_finish"
    /\ ~last.was_queued
    /\ last.unsub_client
    /\ \E i \in DOMAIN push_queue :
          /\ i > last.id
          /\ push_queue[i].client_id = last.item.client_id
          /\ ~IsNull(clients[push_queue[i].client_id].push_sub)

\* The database that a cleanup_ads call would have left had it not deleted
\* the ledger rows `gone` of the database before it.
WithLedgerRows(after, before, gone) ==
    [after EXCEPT !.ad_content_text = Restrict(before.ad_content_text, gone) @@ @]

\* C36 (SpecLedger): every ledger row that cleanup_ads deletes at time now
\* is not fresh (last_seen > t - ad_text_expiration) at any time t >= now;
\* and an insert_ad at any such t, for any ad of the query and any text,
\* returns the same, counts the same fresh rows, decides the same on the
\* notification and writes the same rows whether or not the deleted rows
\* are still there: the two databases differ only by the deleted rows that
\* the insert does not rewrite.
C36_ExpiryKeepsInsertOutcome ==
    [][ last'.op = "cleanup_ads" =>
          LET gone == last'.expired
              kept == WithLedgerRows(DB', DB, gone)
          IN  /\ \A k \in gone : \A t \in now..MaxTime :
                    ~TextIsFresh(ad_content_text[k].last_seen, t, ad_text_expiration)
              /\ gone = {} \/
                 \A t \in now..MaxTime, id \in CleanupAdIds, text \in LedgerTexts :
                    LET a == insert_ad(DB', t, 1, id, Some(1), Some(text),
                                       ad_text_expiration, min_notify_interval)
                        b == insert_ad(kept, t, 1, id, Some(1), Some(text),
                                       ad_text_expiration, min_notify_interval)
                    IN  /\ a.ret = b.ret
                        /\ a.exc = b.exc
                        /\ a.count = b.count
                        /\ a.should_notify = b.should_notify
                        /\ b.db = WithLedgerRows(a.db, DB,
                                      gone \ DOMAIN a.db.ad_content_text)
      ]_vars

\* cleanup_ads deleted, before the clock's bound, a ledger row of a query
\* that is still there and has ads, and one of the inserts compared has the
\* text of the deleted row.
C36_Witness ==
    /\ last.op = "cleanup_ads"
    /\ last.t < MaxTime
    /\ 1 \in DOMAIN ad_queries
    /\ \E k \in DOMAIN ad_content : k[1] = 1
    /\ \E k \in last.expired :
          /\ k[1] = 1
          /\ \E text \in LedgerTexts : k[2] = hash_session_id(Lower(text))

=====
